---- MODULE Spec2Model ----
(***************************************************************************)
(* SmartPresence: the attendance session of FaceSystemThreaded             *)
(* (ai_module/recognition_system.py), driven by the detection loop, with   *)
(* the settings store (ai_module/settings.py), the timetable and the       *)
(* attendance log it reads and writes.                                     *)
(*                                                                         *)
(* Time.  One variable, now, is the wall clock in ticks.  datetime.now()   *)
(* and time.time() are both readings of it.  A tick is the clock's         *)
(* sub-second resolution; the calendar is scaled down: SubPerSec ticks a   *)
(* second, SecPerMin seconds a minute (the 60 of the code), MinPerDay      *)
(* minutes a day, DaysPerWeek days a week.                                 *)
(*                                                                         *)
(* Strings.  A time-of-day string is a record [m, ok]: ok = TRUE is the    *)
(* zero-padded "HH:MM" of minute m of the day, ok = FALSE is that string   *)
(* with a non-numeric character appended ("09:00x"): it sorts right after  *)
(* "09:00" and before "09:01", and int() raises on its minute field.       *)
(* An optional value is a sequence: <<>> is None, <<v>> is the value v.    *)
(***************************************************************************)
EXTENDS Integers, Sequences, FiniteSets, TLC

\* ---------------------------------------------------------------- bounds
SubPerSec == 2
SecPerMin == 2
MinPerDay == 2
DaysPerWeek == 2
MaxMinutes == 4
MaxFineTicks == 2
MaxLogs == 3
MaxStarts == 2
MaxAttempts == 7
MaxCameras == 3

TicksPerMin == SubPerSec * SecPerMin
TicksPerDay == TicksPerMin * MinPerDay
TicksPerWeek == TicksPerDay * DaysPerWeek

\* time.time() at the start of the run: far from the epoch, as a real clock is
\* (last_disappear_check starts at 0, so the first sweep is always due).
StartTick == 2 * TicksPerWeek

\* ------------------------------------------------------------ vocabulary
Names == {"alice"}
Unknown == "Unknown"

None == <<>>
Some(v) == <<v>>

ForceOnId == -1

TimeStr(m, ok) == [m |-> m, ok |-> ok]

\* Text comparison a <= b of two time-of-day strings (SQLite BETWEEN on TEXT).
StrLE(a, b) == a.m < b.m \/ (a.m = b.m /\ (a.ok \/ ~b.ok))

VARIABLES
    now,                    \* the wall clock
    settings_db,            \* table settings: key -> value
    cache,                  \* SettingsManager._cache
    class_schedules,        \* table class_schedules
    students,               \* table students (names)
    attendance_logs,        \* table attendance_logs, in insertion order
    session_logged,         \* FaceSystemThreaded.session_logged (its keys)
    last_seen,              \* FaceSystemThreaded.last_seen
    last_disappear_check,   \* FaceSystemThreaded.last_disappear_check
    current_schedule_key,   \* FaceSystemThreaded._current_schedule_key
    schedule,               \* ai_loop's local variable schedule
    face,                   \* ai_loop's loop variable name: the face in hand ("" between cycles)
    pc,                     \* ai_loop's position in its cycle
    session_base            \* number of log rows written before the last session reset

\* The pipeline (web_app/video_stream.py).  A capture thread is known by the
\* number of the start() that created it; the detection thread of the latest
\* start() is the one whose position is pc.
VARIABLES
    is_running,             \* VideoStream.is_running
    fs_is_running,          \* VideoStream.face_system.is_running
    stop_event,             \* VideoStream._stop_event is set
    cap,                    \* VideoStream._cap: None or a camera handle
    opened,                 \* the camera handles that are open
    started,                \* how many times start() has created threads
    cpc,                    \* each capture thread's position
    backoff,                \* _open_camera's local backoff, per capture thread
    attempt,                \* _open_camera's local attempt, per capture thread
    waited,                 \* seconds spent so far in _stop_event.wait(backoff), per thread
    consecutive_failures,   \* _capture_loop's local consecutive_failures, per thread
    latest_frame,           \* VideoStream.face_system.latest_frame: None or a frame
    old_ai_same,            \* live detection threads of earlier starts, on the current face_system
    old_ai_orphan,          \* live detection threads on a face_system that restart() replaced
    ctl                     \* the position of the caller of stop() or restart()

attVars == <<now, settings_db, cache, class_schedules, students, attendance_logs,
             session_logged, last_seen, last_disappear_check, current_schedule_key,
             schedule, face, pc, session_base>>

streamVars == <<is_running, fs_is_running, stop_event, cap, opened, started, cpc,
                backoff, attempt, waited, consecutive_failures, latest_frame,
                old_ai_same, old_ai_orphan, ctl>>

\* The detector of the FaceSystemThreaded (ai_module/recognition_system.py,
\* ai_module/detectors.py).
VARIABLES
    detector_name,          \* FaceSystemThreaded.detector_name
    detector,               \* the class of FaceSystemThreaded.detector
    detector_log,           \* the last message of _init_detector
    has_mediapipe           \* detectors.HAS_MEDIAPIPE

detVars == <<detector_name, detector, detector_log, has_mediapipe>>

\* The camera registry (ai_module/camera_manager.py, web_app/routes/api.py).
VARIABLES
    cameras,                \* table cameras
    camera_seq,             \* the highest id the table has handed out (AUTOINCREMENT)
    cam_config              \* what the last get_active_camera() returned (None before)

camVars == <<cameras, camera_seq, cam_config>>

\* A caller of SettingsManager.get in a thread of its own, and the record of
\* the calls of SettingsManager.set (ai_module/settings.py).
VARIABLES
    g_pc,                   \* the caller of get: "idle", or "fetched" between lines 32 and 33
    g_key,                  \* get's argument key
    g_default,              \* get's argument default (None when not given)
    g_cast,                 \* get's argument type_cast: "str" or "float"
    g_val,                  \* get's local val after line 32
    got,                    \* what the last get returned (None before)
    set_done                \* the keys for which a set has returned True

setVars == <<g_pc, g_key, g_default, g_cast, g_val, got, set_done>>

\* The settings page of the API (web_app/routes/api.py, /api/settings).
VARIABLES
    request,                \* the last request: method, JSON body, and whether the table could be used
    response                \* the response to it (None before the first request)

apiVars == <<request, response>>

\* _open_camera between the return of cv2.VideoCapture and the assignment
\* of its result to self._cap (web_app/video_stream.py).
VARIABLES
    local_cap               \* _open_camera's local cap, per capture thread: None or a handle

\* A detection thread of an earlier start() that runs on the current
\* face_system beside the thread of the latest start() (ai_loop's locals are
\* per thread, the session is shared).
VARIABLES
    other                   \* the locals of the detection thread that is not at the processor

\* The database as get_active_schedule finds it (recognition_system.py,
\* lines 120-131).
VARIABLES
    timetable_ok            \* the query on class_schedules succeeds

\* The gallery (recognition_system.py, lines 24-26 and 74-91) and an
\* enrollment from the web UI (web_app/routes/api.py, enroll_student).
VARIABLES
    known_names,            \* FaceSystemThreaded.known_names
    known_encodings,        \* FaceSystemThreaded.known_encodings
    store,                  \* the file at ENCODINGS_PATH
    epc,                    \* enroll_student's position
    enrolling,              \* enroll_student's local name
    seen                    \* the lengths the detection loop found at its last reading of the gallery

galVars == <<known_names, known_encodings, store, epc, enrolling, seen>>

\* The trackers (recognition_system.py, lines 282-298; video_stream.py,
\* lines 188-210).  A tracker is known by the cycle that built it and its
\* place in that cycle's results; target is the name it was built for and at
\* the image it was last started on or updated to.
VARIABLES
    trackers,               \* FaceSystemThreaded.trackers
    current_trackers,       \* _capture_loop's local current_trackers, per capture thread
    results,                \* ai_loop's local results (the names; a box goes with each)
    new_trackers,           \* ai_loop's local new_trackers (new_tracking_names: their targets)
    cycle,                  \* how many detection cycles have published
    raised                  \* the places in current_trackers whose tracker raised in the last pass, per thread

trkVars == <<trackers, current_trackers, results, new_trackers, cycle, raised>>

moreVars == <<local_cap, other, timetable_ok, galVars, trkVars>>

\* The exchange of frames between the capture loop, the detection loop and
\* the consumers of the stream (web_app/video_stream.py,
\* ai_module/recognition_system.py).  A frame is an array on the heap; a
\* slot or a local holds a reference to it, a copy() is a new array.
VARIABLES
    lock,                   \* who holds face_system.lock: None or a thread
    stream_lock,            \* who holds VideoStream.lock: None or a thread
    heap,                   \* the arrays the capture loop has allocated: image and what is drawn on it
    camera_image,           \* the image the camera delivers next
    frame,                  \* _capture_loop's local frame, per capture thread (0: none)
    current_names,          \* _capture_loop's locals current_trackers/current_names, per thread
    tracking_names,         \* face_system.trackers with face_system.tracking_names
    detected_results,       \* face_system.detected_results
    new_results_available,  \* face_system.new_results_available
    frame_to_process,       \* ai_loop's local frame_to_process: None or a copy
    output_frame,           \* VideoStream.output_frame: None or a copy
    gpc,                    \* the position of generate_frames
    gen_frame,              \* generate_frames' local frame: None or a copy
    yielded,                \* the last part generate_frames yielded (None before)
    published_frames,       \* every copy line 221 has put into output_frame
    polled_empty            \* generate_frames has found the output slot empty

frameVars == <<lock, stream_lock, heap, camera_image, frame, current_names,
               tracking_names, detected_results, new_results_available,
               frame_to_process, output_frame, gpc, gen_frame, yielded,
               published_frames, polled_empty>>

\* What neither the attendance session nor the pipeline nor the detector
\* selection writes.
restVars == <<camVars, setVars, apiVars, frameVars, moreVars>>

webVars == <<detVars, restVars>>

vars == <<attVars, streamVars, webVars>>

\* ------------------------------------------------------------- the clock
\* datetime.now(): weekday, "%H:%M", midnight and the sub-second field.
DayOf(t) == (t \div TicksPerDay) % DaysPerWeek
MinuteOf(t) == (t % TicksPerDay) \div TicksPerMin
SubOf(t) == t % SubPerSec
Midnight(t) == t - (t % TicksPerDay)
StrfHM(t) == TimeStr(MinuteOf(t), TRUE)

\* --------------------------------------------------------- settings store
Keys == {"SYSTEM_MODE", "LATE_THRESHOLD", "DISAPPEAR_THRESHOLD", "RECHECK_INTERVAL",
         "DETECTOR_MODEL", "TOLERANCE"}

DEFAULTS ==
    [k \in Keys |->
        CASE k = "SYSTEM_MODE" -> "auto"
          [] k = "LATE_THRESHOLD" -> "10"
          [] k = "DISAPPEAR_THRESHOLD" -> "15"
          [] k = "RECHECK_INTERVAL" -> "300"
          [] k = "DETECTOR_MODEL" -> "dlib"
          [] k = "TOLERANCE" -> "0.5"]

\* The decimal strings of the model and what int() makes of them; int() raises
\* on every other string.
IntStrings == {"0", "1", "2", "3", "10", "15", "300"}
IntOf(s) ==
    CASE s = "0" -> 0 [] s = "1" -> 1 [] s = "2" -> 2 [] s = "3" -> 3
      [] s = "10" -> 10 [] s = "15" -> 15 [] s = "300" -> 300

\* SettingsManager._fetch_from_db
FetchFromDb(key) ==
    IF key \in DOMAIN settings_db THEN settings_db[key] ELSE DEFAULTS[key]

\* The cache after get(key): a miss stores what the table holds.
CacheAfterGet(c, key) ==
    IF key \in DOMAIN c THEN c ELSE [k \in DOMAIN c \cup {key} |->
                                        IF k = key THEN FetchFromDb(key) ELSE c[k]]

\* get(): the value before the cast (cache, then the caller's default, then
\* the class default); default is an optional string.
FinalVal(c, key, default) ==
    LET val == CacheAfterGet(c, key)[key]
    IN  IF val = ""
        THEN (IF default # None THEN default[1] ELSE DEFAULTS[key])
        ELSE val

\* get(key, default, type_cast=str)
GetStr(c, key, default) == FinalVal(c, key, default)

\* get(key, type_cast=int): [int |-> TRUE, i |-> n] when the cast succeeds;
\* when it raises, the class default comes back uncast, a string.
GetInt(c, key) ==
    LET f == FinalVal(c, key, None)
    IN  IF f \in IntStrings
        THEN [int |-> TRUE, i |-> IntOf(f), s |-> ""]
        ELSE [int |-> FALSE, i |-> 0, s |-> DEFAULTS[key]]

\* SettingsManager.set, with the write succeeding.
SettingsSetDb(key, value) ==
    [k \in DOMAIN settings_db \cup {key} |-> IF k = key THEN value ELSE settings_db[k]]
SettingsSetCache(key, value) ==
    [k \in DOMAIN cache \cup {key} |-> IF k = key THEN value ELSE cache[k]]

\* The strings float() takes, with their values in hundredths; float()
\* raises on every other string of the model.
FloatStrings == {"0.5", "0.45", "0.1", "1.0"}
FloatOf(s) ==
    CASE s = "0.5" -> 50 [] s = "0.45" -> 45 [] s = "0.1" -> 10 [] s = "1.0" -> 100

\* get(), lines 36-42: final_val for val as found in the cache or fetched.
FinalOf(val, key, default) ==
    IF val = ""
    THEN (IF default # None THEN default[1] ELSE DEFAULTS[key])
    ELSE val

\* get(), lines 44-52: the cast, and what comes back when it raises.
Returned(final, key, default, cast) ==
    IF cast = "str" THEN [type |-> "str", s |-> final, x |-> 0]
    ELSE IF final \in FloatStrings THEN [type |-> "float", s |-> "", x |-> FloatOf(final)]
    ELSE [type |-> "str", s |-> (IF default # None THEN default[1] ELSE DEFAULTS[key]),
          x |-> 0]

\* What the settings calls leave alone.
SettingsFrame ==
    /\ UNCHANGED <<now, class_schedules, students, attendance_logs, session_logged,
                   last_seen, last_disappear_check, current_schedule_key, schedule,
                   face, pc, session_base>>
    /\ UNCHANGED <<streamVars, detVars, camVars, apiVars, frameVars, moreVars>>

\* get(key, default, type_cast), lines 29-32: on a hit the value is there and
\* the call returns; on a miss the table is read.
get_begin(key, default, cast) ==
    /\ g_pc = "idle"
    /\ g_key' = key
    /\ g_default' = default
    /\ g_cast' = cast
    /\ IF key \in DOMAIN cache
       THEN /\ got' = Some(Returned(FinalOf(cache[key], key, default), key, default, cast))
            /\ UNCHANGED <<g_pc, g_val>>
       ELSE /\ g_pc' = "fetched"
            /\ g_val' = Some(FetchFromDb(key))
            /\ UNCHANGED got
    /\ UNCHANGED <<settings_db, cache, set_done>>
    /\ SettingsFrame

\* get(), lines 33-52 after a miss: the fetched value goes into the cache
\* and the call returns.
get_fill ==
    /\ g_pc = "fetched"
    /\ cache' = [k \in DOMAIN cache \cup {g_key} |->
                     IF k = g_key THEN g_val[1] ELSE cache[k]]
    /\ got' = Some(Returned(FinalOf(g_val[1], g_key, g_default), g_key, g_default, g_cast))
    /\ g_pc' = "idle"
    /\ g_val' = None
    /\ UNCHANGED <<settings_db, g_key, g_default, g_cast, set_done>>
    /\ SettingsFrame

\* SettingsManager.set(key, value): the row is written and the cache
\* updated, True comes back; or the write raises and False comes back.
settings_set(key, value, ok) ==
    /\ IF ok
       THEN /\ settings_db' = SettingsSetDb(key, value)
            /\ cache' = SettingsSetCache(key, value)
            /\ set_done' = set_done \cup {key}
       ELSE UNCHANGED <<settings_db, cache, set_done>>
    /\ UNCHANGED <<g_pc, g_key, g_default, g_cast, g_val, got>>
    /\ SettingsFrame

\* ------------------------------------------------------ /api/settings
\* The values of a JSON body as Python sees them: a str, a float (x in
\* hundredths), True/False, None.
JStr(s) == [kind |-> "str", s |-> s, x |-> 0]
JNum(x) == [kind |-> "num", s |-> "", x |-> x]
JInt(x) == [kind |-> "int", s |-> "", x |-> x]
JTrue == [kind |-> "bool", s |-> "", x |-> 1]
JNull == [kind |-> "null", s |-> "", x |-> 0]

\* str(value), as SettingsManager.set applies it (settings.py, lines 60, 62).
PyStr(v) ==
    CASE v.kind = "str" -> v.s
      [] v.kind = "num" -> (CASE v.x = 45 -> "0.45" [] v.x = 50 -> "0.5"
                              [] v.x = 10 -> "0.1" [] v.x = 100 -> "1.0"
                              [] v.x = 500 -> "5.0")
      [] v.kind = "bool" -> (IF v.x = 1 THEN "True" ELSE "False")
      [] v.kind = "null" -> "None"

\* float(val), api.py line 1376: the value in hundredths, or the exception.
PyFloat(v) ==
    CASE v.kind = "num" -> [raises |-> "", x |-> v.x]
      [] v.kind = "bool" -> [raises |-> "", x |-> 100 * v.x]
      [] v.kind = "null" -> [raises |-> "TypeError", x |-> 0]
      [] v.kind = "str" -> (IF v.s \in FloatStrings
                            THEN [raises |-> "", x |-> FloatOf(v.s)]
                            ELSE [raises |-> "ValueError", x |-> 0])

\* key.upper() and k.lower() on the keys of the model.
Upper(k) ==
    CASE k = "detector_model" -> "DETECTOR_MODEL"
      [] k = "tolerance" -> "TOLERANCE"
      [] k = "system_mode" -> "SYSTEM_MODE"
      [] OTHER -> k
Lower(k) ==
    CASE k = "DETECTOR_MODEL" -> "detector_model"
      [] k = "TOLERANCE" -> "tolerance"
      [] k = "SYSTEM_MODE" -> "system_mode"
      [] k = "LATE_THRESHOLD" -> "late_threshold"
      [] k = "DISAPPEAR_THRESHOLD" -> "disappear_threshold"
      [] k = "RECHECK_INTERVAL" -> "recheck_interval"
      [] k = "DETECTION_SCALE" -> "detection_scale"
      [] k = "FRAME_SKIP" -> "frame_skip"
      [] OTHER -> k

ALLOWED_KEYS ==
    {"DETECTOR_MODEL", "TOLERANCE", "DETECTION_SCALE", "LATE_THRESHOLD",
     "DISAPPEAR_THRESHOLD", "RECHECK_INTERVAL", "SYSTEM_MODE", "FRAME_SKIP"}

\* SettingsManager.get_all(): the rows of the table with the class defaults
\* for the keys that have none, or the class defaults when the table cannot
\* be read.
get_all(fails) ==
    IF fails THEN DEFAULTS
    ELSE [k \in DOMAIN settings_db \cup Keys |->
             IF k \in DOMAIN settings_db THEN settings_db[k] ELSE DEFAULTS[k]]

\* What is shared by the actions of the settings page.
ApiFrame ==
    /\ UNCHANGED <<now, class_schedules, students, attendance_logs, session_logged,
                   last_seen, last_disappear_check, current_schedule_key, schedule,
                   face, pc, session_base>>
    /\ UNCHANGED <<streamVars, detVars, camVars, setVars, frameVars, moreVars>>

\* GET /api/settings, lines 1334-1343.
get_settings(fails) ==
    LET raw == get_all(fails)
        lowered == {Lower(k) : k \in DOMAIN raw}
        data == [l \in lowered \cup {"frame_width", "frame_height"} |->
                    CASE l = "frame_width" -> JInt(1920)
                      [] l = "frame_height" -> JInt(1080)
                      [] OTHER -> JStr(raw[CHOOSE k \in DOMAIN raw : Lower(k) = l])]
    IN  /\ request' = [method |-> "GET", body |-> <<>>, db_ok |-> ~fails]
        /\ response' = Some([status |-> 200, data |-> data, updated |-> 0,
                             errors |-> <<>>])
        /\ UNCHANGED <<settings_db, cache>>
        /\ ApiFrame

\* The body of the loop of update_settings for one item, lines 1369-1392:
\* what becomes of the item.
Validate(key, val) ==
    IF key \notin ALLOWED_KEYS THEN "skip"
    ELSE IF key \in {"TOLERANCE", "DETECTION_SCALE"}
              /\ PyFloat(val).raises = "TypeError" THEN "raise"
    ELSE IF key \in {"TOLERANCE", "DETECTION_SCALE"}
              /\ PyFloat(val).raises = "ValueError" THEN "must be a number"
    ELSE IF key \in {"TOLERANCE", "DETECTION_SCALE"}
              /\ ~(10 <= PyFloat(val).x /\ PyFloat(val).x <= 100)
         THEN "must be between 0.1 and 1.0"
    ELSE IF key = "DETECTOR_MODEL" /\ val \notin {JStr("dlib"), JStr("mediapipe")}
         THEN "must be 'dlib' or 'mediapipe'"
    ELSE IF key = "SYSTEM_MODE" /\ val \notin {JStr(m) : m \in {"auto", "force_on", "force_off"}}
         THEN "must be 'auto', 'force_on', or 'force_off'"
    ELSE "set"

\* The loop of update_settings, lines 1368-1397, from the items still to
\* come; st holds the table, the cache, success_count, errors, and whether an
\* exception has left the handler.
RECURSIVE PostLoop(_, _, _)
PostLoop(items, st, ok) ==
    IF items = <<>> \/ st.raised THEN st
    ELSE LET key == Upper(items[1][1])
             val == items[1][2]
             what == Validate(key, val)
             next ==
                 CASE what = "skip" -> st
                   [] what = "raise" -> [st EXCEPT !.raised = TRUE]
                   [] what = "set" /\ ok ->
                        [st EXCEPT
                           !.db = [k \in DOMAIN st.db \cup {key} |->
                                      IF k = key THEN PyStr(val) ELSE st.db[k]],
                           !.cache = [k \in DOMAIN st.cache \cup {key} |->
                                         IF k = key THEN PyStr(val) ELSE st.cache[k]],
                           !.done = st.done \cup {key},
                           !.updated = st.updated + 1]
                   [] what = "set" /\ ~ok ->
                        [st EXCEPT !.errors = Append(st.errors, <<key, "Failed to save">>)]
                   [] OTHER ->
                        [st EXCEPT !.errors = Append(st.errors, <<key, what>>)]
         IN  PostLoop(Tail(items), next, ok)

\* POST /api/settings, lines 1348-1405, with handle_api_error (lines 23-31)
\* for an exception that leaves the handler and _require_json (lines 36-41)
\* for an empty body.
update_settings_post(body, ok) ==
    LET st == PostLoop(body, [db |-> settings_db, cache |-> cache, done |-> set_done,
                              updated |-> 0, errors |-> <<>>, raised |-> FALSE], ok)
    IN  /\ request' = [method |-> "POST", body |-> body, db_ok |-> ok]
        /\ IF body = <<>>
           THEN /\ response' = Some([status |-> 400, data |-> <<>>, updated |-> 0,
                                     errors |-> <<>>])
                /\ UNCHANGED <<settings_db, cache, set_done>>
           ELSE /\ settings_db' = st.db
                /\ cache' = st.cache
                /\ set_done' = st.done
                /\ response' = IF st.raised
                               THEN Some([status |-> 500, data |-> <<>>, updated |-> 0,
                                          errors |-> <<>>])
                               ELSE Some([status |-> 200, data |-> <<>>,
                                          updated |-> st.updated, errors |-> st.errors])
        /\ UNCHANGED <<now, class_schedules, students, attendance_logs, session_logged,
                       last_seen, last_disappear_check, current_schedule_key, schedule,
                       face, pc, session_base>>
        /\ UNCHANGED <<streamVars, detVars, camVars, frameVars, moreVars>>
        /\ UNCHANGED <<g_pc, g_key, g_default, g_cast, g_val, got>>

\* ------------------------------------------------------------- detector
Detectors == {"dlib", "mediapipe"}

\* Faulty variant: no fallback, a construction that raises leaves no
\* detector.
init_detector_NoFallback(name, raises) ==
    IF name = "mediapipe" /\ has_mediapipe
    THEN (IF raises THEN [detector |-> "none", log |-> "fallback"]
                    ELSE [detector |-> "mediapipe", log |-> "mediapipe"])
    ELSE [detector |-> "dlib", log |-> "dlib"]

\* _init_detector for detector_name = name: the detector installed and the
\* message logged.  raises: MediaPipeDetector() raises.
init_detector(name, raises) ==
    IF name = "mediapipe" /\ has_mediapipe
    THEN (IF raises THEN [detector |-> "dlib", log |-> "fallback"]
                    ELSE [detector |-> "mediapipe", log |-> "mediapipe"])
    ELSE [detector |-> "dlib", log |-> "dlib"]

\* _check_settings_change, reading the settings through cache c.
check_settings_change(c, raises) ==
    LET new_model == GetStr(c, "DETECTOR_MODEL", Some("dlib"))
    IN  /\ detector_name' = new_model
        /\ IF new_model # detector_name
           THEN /\ detector' = init_detector(new_model, raises).detector
                /\ detector_log' = init_detector(new_model, raises).log
           ELSE UNCHANGED <<detector, detector_log>>
        /\ UNCHANGED has_mediapipe

\* FaceSystemThreaded.__init__, lines 39-40.
NewDetector(c, raises) ==
    LET name == GetStr(c, "DETECTOR_MODEL", Some("dlib"))
    IN  /\ detector_name' = name
        /\ detector' = init_detector(name, raises).detector
        /\ detector_log' = init_detector(name, raises).log
        /\ UNCHANGED has_mediapipe

\* ------------------------------------------------------ camera registry
CameraNames == <<"Integrated Camera", "Cam B", "Cam C", "Cam D", "Cam E">>
CameraSources == <<"0", "1", "2", "3", "4">>

\* A row of table cameras.
Camera(id, active) ==
    [id |-> id, name |-> CameraNames[id], source |-> CameraSources[id],
     type |-> "usb", is_active |-> active]

\* get_active_camera's fallback (lines 38-42; common.CAMERA_ID is 0).
DefaultCamera ==
    [id |-> 0, name |-> "Default Camera", source |-> "0", type |-> "usb", is_active |-> 1]

\* Faulty variant: the lowest id wins whether the entry is active or not.
get_active_camera_AnyRow(cams, fails) ==
    IF fails \/ cams = {} THEN DefaultCamera
    ELSE CHOOSE r \in cams : \A q \in cams : r.id <= q.id

\* CameraManager.get_active_camera over table cams; fails: the lookup raises.
get_active_camera(cams, fails) ==
    LET rows == {r \in cams : r.is_active = 1}
    IN  IF fails \/ rows = {} THEN DefaultCamera
        ELSE CHOOSE r \in rows : \A q \in rows : r.id <= q.id

\* What the registry actions leave alone.
RegistryFrame == UNCHANGED <<attVars, streamVars, detVars, setVars, apiVars, frameVars, moreVars>>

\* A call of CameraManager.get_active_camera() (video_stream.py, line 112).
resolve_camera ==
    /\ \E fails \in BOOLEAN : cam_config' = Some(get_active_camera(cameras, fails))
    /\ UNCHANGED <<cameras, camera_seq>>
    /\ RegistryFrame

\* POST /api/cameras: a new row, active, with the next id.
add_camera ==
    /\ camera_seq < MaxCameras
    /\ cameras' = cameras \cup {Camera(camera_seq + 1, 1)}
    /\ camera_seq' = camera_seq + 1
    /\ UNCHANGED cam_config
    /\ RegistryFrame

\* PUT /api/cameras/<id> with is_active 0 or 1.
update_camera ==
    /\ \E r \in cameras, active \in {0, 1} :
          cameras' = (cameras \ {r}) \cup {Camera(r.id, active)}
    /\ UNCHANGED <<camera_seq, cam_config>>
    /\ RegistryFrame

\* DELETE /api/cameras/<id>
delete_camera ==
    /\ \E r \in cameras : cameras' = cameras \ {r}
    /\ UNCHANGED <<camera_seq, cam_config>>
    /\ RegistryFrame

\* ------------------------------------------------------ schedule resolver
Modes == {"auto", "force_on", "force_off"}

\* The synthetic schedule of force_on.  Only id and start_time are ever read;
\* the other fields are there so that every schedule has one shape.
ManualSchedule ==
    [id |-> ForceOnId, day_of_week |-> -1, start_time |-> TimeStr(0, TRUE),
     end_time |-> TimeStr(MinPerDay - 1, TRUE), is_active |-> TRUE]

\* The SELECT of get_active_schedule at clock reading t.
MatchingRows(t) ==
    {r \in class_schedules :
        /\ r.day_of_week = DayOf(t)
        /\ r.is_active
        /\ StrLE(r.start_time, StrfHM(t))
        /\ StrLE(StrfHM(t), r.end_time)}

\* ORDER BY start_time LIMIT 1 (rows with one start_time: the lower id).
FirstRow(rows) ==
    CHOOSE r \in rows : \A q \in rows :
        \/ q = r
        \/ ~StrLE(q.start_time, r.start_time)
        \/ (StrLE(r.start_time, q.start_time) /\ r.id < q.id)

\* Faulty variant: force_off is not singled out, so the timetable decides.
get_active_schedule_NoOff(c) ==
    LET mode == GetStr(c, "SYSTEM_MODE", Some("auto"))
    IN  IF mode = "force_on" THEN Some(ManualSchedule)
        ELSE IF MatchingRows(now) = {} THEN None
        ELSE Some(FirstRow(MatchingRows(now)))

\* Faulty variant: the timetable is asked first, and the mode only when no
\* entry matches.
get_active_schedule_TableFirst(c) ==
    LET mode == GetStr(c, "SYSTEM_MODE", Some("auto"))
    IN  IF MatchingRows(now) # {} THEN Some(FirstRow(MatchingRows(now)))
        ELSE IF mode = "force_on" THEN Some(ManualSchedule)
        ELSE None

\* get_active_schedule(), reading the settings through cache c; a query
\* that raises gives None (lines 130-131).
get_active_schedule(c) ==
    LET mode == GetStr(c, "SYSTEM_MODE", Some("auto"))
    IN  IF mode = "force_on" THEN Some(ManualSchedule)
        ELSE IF mode = "force_off" THEN None
        ELSE IF ~timetable_ok THEN None
        ELSE IF MatchingRows(now) = {} THEN None
        ELSE Some(FirstRow(MatchingRows(now)))

\* --------------------------------------------------- status determination
\* now.replace(hour, minute, second=0): the sub-second field of now stays.
ClassStart(t, start_time) == Midnight(t) + start_time.m * TicksPerMin + SubOf(t)

\* Faulty variant: the synthetic schedule is not singled out, so its start
\* time "00:00" is parsed like any other.
determine_status_NoManual(c, sched) ==
    IF ~sched.start_time.ok THEN "Present"
    ELSE LET thresh == GetInt(c, "LATE_THRESHOLD")
         IN  IF ~thresh.int THEN "Present"
             ELSE IF now <= ClassStart(now, sched.start_time) + thresh.i * TicksPerMin
                  THEN "On Time"
                  ELSE "Late"

\* determine_status(schedule) for a schedule that is not None, at clock
\* reading now, reading the settings through cache c.
determine_status(c, sched) ==
    IF sched.id = ForceOnId THEN "Present"
    ELSE IF ~sched.start_time.ok THEN "Present"
    ELSE LET thresh == GetInt(c, "LATE_THRESHOLD")
         IN  IF ~thresh.int THEN "Present"
             ELSE IF now <= ClassStart(now, sched.start_time) + thresh.i * TicksPerMin
                  THEN "On Time"
                  ELSE "Late"

\* The cache after determine_status: LATE_THRESHOLD is read only once the
\* start time has parsed.
CacheAfterStatus(c, sched) ==
    IF sched.id = ForceOnId \/ ~sched.start_time.ok THEN c
    ELSE CacheAfterGet(c, "LATE_THRESHOLD")

\* ------------------------------------------------------ attendance session
SchedKey(name, sid) == [name |-> name, kind |-> "sched", sid |-> sid]
DisappearedKey(name) == [name |-> name, kind |-> "disappeared", sid |-> 0]

\* f"_schedule_{id}_{start_time}"
Fingerprint(sched) == <<sched.id, sched.start_time>>

\* Faulty variant: the id of the synthetic schedule is stored as it is.
SightingRow_RawId(name, status, sid) ==
    [student |-> name, status |-> status, schedule_id |-> Some(sid), notes |-> None]

\* A row of attendance_logs written by log_attendance: schedule_id is NULL
\* for the synthetic schedule.
SightingRow(name, status, sid) ==
    [student |-> name, status |-> status,
     schedule_id |-> IF sid # ForceOnId THEN Some(sid) ELSE None, notes |-> None]

\* A row written by check_disappearances: no schedule_id column is given;
\* notes holds int(elapsed / 60), the whole minutes since the last sighting.
DisappearedRow(name, elapsed) ==
    [student |-> name, status |-> "Disappeared", schedule_id |-> None,
     notes |-> Some(elapsed \div TicksPerMin)]

SetLastSeen(ls, name, t) ==
    [n \in DOMAIN ls \cup {name} |-> IF n = name THEN t ELSE ls[n]]

EmptyMap == [n \in {} |-> 0]

\* maybe_reset_session(schedule): whether it clears the session.
ResetDue(s) ==
    /\ s # None
    /\ (current_schedule_key = None \/ current_schedule_key[1] # Fingerprint(s[1]))

maybe_reset_session(s) ==
    IF ResetDue(s)
    THEN /\ current_schedule_key' = Some(Fingerprint(s[1]))
         /\ session_logged' = {}
         /\ last_seen' = EmptyMap
         /\ session_base' = Len(attendance_logs)
    ELSE UNCHANGED <<current_schedule_key, session_logged, last_seen, session_base>>

\* An INSERT into attendance_logs succeeds only while the table has room.
HasRoom(log) == Len(log) < MaxLogs

\* Faulty variant: the dedup test never finds the key.
AlreadyLogged_Never(name, sid) == FALSE

\* Whether log_attendance finds the name already logged for the schedule.
AlreadyLogged(name, sid) == SchedKey(name, sid) \in session_logged

\* Faulty variant: the sighting is recorded in last_seen before the return.
NoScheduleOutcome_Tracked(n, c) ==
    /\ cache' = c
    /\ last_seen' = SetLastSeen(last_seen, n, now)
    /\ UNCHANGED <<attendance_logs, session_logged>>

\* log_attendance, lines 149-150: no active schedule, so it returns.
NoScheduleOutcome(n, c) ==
    /\ cache' = c
    /\ UNCHANGED <<attendance_logs, session_logged, last_seen>>

\* Faulty variant: a deduplicated sighting returns without touching last_seen.
DedupOutcome_NoRefresh(n, c) ==
    /\ cache' = c
    /\ UNCHANGED <<attendance_logs, session_logged, last_seen>>

\* log_attendance, lines 155-157: the name is logged already.
DedupOutcome(n, c) ==
    /\ cache' = c
    /\ last_seen' = SetLastSeen(last_seen, n, now)
    /\ UNCHANGED <<attendance_logs, session_logged>>

\* log_attendance, lines 163-174: the row is written and the session marked.
LoggedOutcome(n, c, sched) ==
    /\ cache' = CacheAfterStatus(c, sched)
    /\ attendance_logs' =
           Append(attendance_logs, SightingRow(n, determine_status(c, sched), sched.id))
    /\ session_logged' = session_logged \cup {SchedKey(n, sched.id)}
    /\ last_seen' = SetLastSeen(last_seen, n, now)

\* Faulty variant: the session is marked and the sighting recorded before
\* the INSERT, so that a failing INSERT leaves them behind.
log_attendance_KeyFirst(n, fail) ==
    LET c1 == CacheAfterGet(cache, "SYSTEM_MODE")
        s == get_active_schedule(cache)
    IN  IF s = None THEN NoScheduleOutcome(n, c1)
        ELSE IF AlreadyLogged(n, s[1].id) THEN DedupOutcome(n, c1)
        ELSE IF fail = "connect" \/ n \notin students
        THEN /\ cache' = c1
             /\ UNCHANGED <<attendance_logs, session_logged, last_seen>>
        ELSE IF fail = "insert" \/ ~HasRoom(attendance_logs)
        THEN /\ cache' = CacheAfterStatus(c1, s[1])
             /\ session_logged' = session_logged \cup {SchedKey(n, s[1].id)}
             /\ last_seen' = SetLastSeen(last_seen, n, now)
             /\ UNCHANGED attendance_logs
        ELSE LoggedOutcome(n, c1, s[1])

\* log_attendance(name); fail says where the sink raises: "none", "connect"
\* (the connection or the SELECT) or "insert" (the INSERT or the commit).
log_attendance(n, fail) ==
    LET c1 == CacheAfterGet(cache, "SYSTEM_MODE")
        s == get_active_schedule(cache)
    IN  IF s = None THEN NoScheduleOutcome(n, c1)
        ELSE IF AlreadyLogged(n, s[1].id) THEN DedupOutcome(n, c1)
        ELSE IF fail = "connect" \/ n \notin students
        THEN /\ cache' = c1
             /\ UNCHANGED <<attendance_logs, session_logged, last_seen>>
        ELSE IF fail = "insert" \/ ~HasRoom(attendance_logs)
        THEN /\ cache' = CacheAfterStatus(c1, s[1])
             /\ UNCHANGED <<attendance_logs, session_logged, last_seen>>
        ELSE LoggedOutcome(n, c1, s[1])

\* The order in which check_disappearances visits the names.
NameSeq == <<"alice">>

\* Faulty variant: the sweep does not look for the ":disappeared" key.
SweepHit_Repeating(name, sess, threshold) ==
    /\ name \in DOMAIN last_seen
    /\ now - last_seen[name] > threshold

\* Whether the sweep reports name: seen too long ago and not yet reported.
SweepHit(name, sess, threshold) ==
    /\ name \in DOMAIN last_seen
    /\ now - last_seen[name] > threshold
    /\ DisappearedKey(name) \notin sess

\* The loop of check_disappearances over last_seen from position i on:
\* the log and the session it leaves.  failed: the names whose write raises.
RECURSIVE SweepFrom(_, _, _, _, _)
SweepFrom(i, log, sess, threshold, failed) ==
    IF i > Len(NameSeq) THEN [log |-> log, sess |-> sess]
    ELSE LET name == NameSeq[i]
         IN  IF /\ SweepHit(name, sess, threshold)
                /\ name \notin failed
                /\ name \in students
                /\ HasRoom(log)
             THEN SweepFrom(i + 1, Append(log, DisappearedRow(name, now - last_seen[name])),
                            sess \cup {DisappearedKey(name)}, threshold, failed)
             ELSE SweepFrom(i + 1, log, sess, threshold, failed)

\* Whether check_disappearances returns at once (the sweep is throttled).
Throttled(interval) == now - last_disappear_check < interval * SubPerSec

\* A setting that does not cast to int comes back as a string.  Comparing a
\* time with it raises a TypeError that nothing in check_disappearances
\* catches: for RECHECK_INTERVAL at line 180, for DISAPPEAR_THRESHOLD (the
\* string times 60 is a string) at line 191, which is reached when there is
\* a schedule and last_seen has an entry.
IntervalRaises == ~GetInt(cache, "RECHECK_INTERVAL").int
ThresholdRaises ==
    LET c1 == CacheAfterGet(cache, "RECHECK_INTERVAL")
        c2 == CacheAfterGet(c1, "DISAPPEAR_THRESHOLD")
    IN  /\ ~GetInt(c1, "DISAPPEAR_THRESHOLD").int
        /\ get_active_schedule(c2) # None
        /\ DOMAIN last_seen # {}

\* check_disappearances() when it raises.
check_disappearances_raises ==
    LET c1 == CacheAfterGet(cache, "RECHECK_INTERVAL")
        c2 == CacheAfterGet(c1, "DISAPPEAR_THRESHOLD")
        c3 == CacheAfterGet(c2, "SYSTEM_MODE")
    IN  IF IntervalRaises
        THEN /\ cache' = c1
             /\ UNCHANGED last_disappear_check
        ELSE /\ ~Throttled(GetInt(cache, "RECHECK_INTERVAL").i)
             /\ ThresholdRaises
             /\ last_disappear_check' = now
             /\ cache' = c3

\* check_disappearances() when it returns.
check_disappearances(failed) ==
    LET interval == GetInt(cache, "RECHECK_INTERVAL")
        c1 == CacheAfterGet(cache, "RECHECK_INTERVAL")
        thresh == GetInt(c1, "DISAPPEAR_THRESHOLD")
        c2 == CacheAfterGet(c1, "DISAPPEAR_THRESHOLD")
        s == get_active_schedule(c2)
        c3 == CacheAfterGet(c2, "SYSTEM_MODE")
        out == SweepFrom(1, attendance_logs, session_logged,
                         thresh.i * SecPerMin * SubPerSec, failed)
    IN  /\ interval.int
        /\ IF Throttled(interval.i)
           THEN /\ cache' = c1
                /\ UNCHANGED <<last_disappear_check, attendance_logs, session_logged>>
           ELSE /\ ~ThresholdRaises
                /\ last_disappear_check' = now
                /\ cache' = c3
                /\ IF s = None
                   THEN UNCHANGED <<attendance_logs, session_logged>>
                   ELSE /\ attendance_logs' = out.log
                        /\ session_logged' = out.sess

\* ----------------------------------------------------------------- actions
\* Time passes: the clock is read a whole number of minutes later.
Tick ==
    /\ now < StartTick + MaxMinutes * TicksPerMin
    /\ now' = now + TicksPerMin
    /\ UNCHANGED <<settings_db, cache, class_schedules, students, attendance_logs,
                   session_logged, last_seen, last_disappear_check,
                   current_schedule_key, schedule, face, pc, session_base>>
    /\ UNCHANGED <<streamVars, webVars>>

\* Time passes: the clock is read one tick later.
TickFine ==
    /\ now < StartTick + MaxFineTicks
    /\ now' = now + 1
    /\ UNCHANGED <<settings_db, cache, class_schedules, students, attendance_logs,
                   session_logged, last_seen, last_disappear_check,
                   current_schedule_key, schedule, face, pc, session_base>>
    /\ UNCHANGED <<streamVars, webVars>>

\* POST /api/settings with a valid SYSTEM_MODE: SettingsManager.set.
update_settings(mode) ==
    /\ settings_db' = SettingsSetDb("SYSTEM_MODE", mode)
    /\ cache' = SettingsSetCache("SYSTEM_MODE", mode)
    /\ UNCHANGED <<now, class_schedules, students, attendance_logs, session_logged,
                   last_seen, last_disappear_check, current_schedule_key, schedule,
                   face, pc, session_base>>
    /\ UNCHANGED <<streamVars, webVars>>

\* POST /api/settings with a valid DETECTOR_MODEL: SettingsManager.set.
update_detector_model(model) ==
    /\ settings_db' = SettingsSetDb("DETECTOR_MODEL", model)
    /\ cache' = SettingsSetCache("DETECTOR_MODEL", model)
    /\ UNCHANGED <<now, class_schedules, students, attendance_logs, session_logged,
                   last_seen, last_disappear_check, current_schedule_key, schedule,
                   face, pc, session_base>>
    /\ UNCHANGED <<streamVars, webVars>>

\* The loop condition and the frame test of ai_loop (lines 224-230): the
\* face_system is running and the capture loop has published a frame.
AiGoes == fs_is_running /\ latest_frame # None

\* ai_loop, lines 224-236: the loop goes on, looks for a change of the
\* detector setting, resolves the schedule and maybe resets the session.
AiSchedule ==
    /\ pc = "schedule"
    /\ AiGoes
    /\ \E raises \in BOOLEAN : check_settings_change(cache, raises)
    /\ schedule' = Some(get_active_schedule(cache))
    /\ cache' = CacheAfterGet(CacheAfterGet(cache, "DETECTOR_MODEL"), "SYSTEM_MODE")
    /\ maybe_reset_session(get_active_schedule(cache))
    /\ pc' = "sweep"
    /\ UNCHANGED <<now, settings_db, class_schedules, students, attendance_logs,
                   last_disappear_check, face>>
    /\ UNCHANGED <<streamVars, restVars>>

\* ai_loop, line 237; detection comes next.
AiSweep ==
    /\ pc = "sweep"
    /\ \E failed \in SUBSET Names : check_disappearances(failed)
    /\ pc' = "faces"
    /\ UNCHANGED <<now, face, settings_db, class_schedules, students, last_seen,
                   current_schedule_key, schedule, session_base>>
    /\ UNCHANGED <<streamVars, webVars>>

\* ai_loop, line 237, when check_disappearances raises: the exception
\* leaves ai_loop, _safe_ai_loop (video_stream.py, lines 96-100) logs it and
\* the thread is over.
AiSweepRaises ==
    /\ pc = "sweep"
    /\ check_disappearances_raises
    /\ pc' = "crashed"
    /\ UNCHANGED <<now, face, settings_db, class_schedules, students, last_seen,
                   current_schedule_key, schedule, session_base, attendance_logs,
                   session_logged>>
    /\ UNCHANGED <<streamVars, webVars>>

\* ai_loop, lines 260-280, for a face that matches gallery name n.
KnownFace(n, fail) ==
    /\ pc = "faces"
    /\ face' = n
    /\ log_attendance(n, fail)
    /\ UNCHANGED <<now, settings_db, class_schedules, students, last_disappear_check,
                   current_schedule_key, schedule, pc, session_base>>
    /\ UNCHANGED <<streamVars, webVars>>

AiKnownFace == \E n \in Names, fail \in {"none", "connect", "insert"} : KnownFace(n, fail)

\* Faulty variant: the nearest gallery name is logged although the face is
\* beyond the tolerance and shown as Unknown.
AiUnknownFace_Nearest ==
    /\ pc = "faces"
    /\ face' = Unknown
    /\ \E n \in Names : log_attendance(n, "none")
    /\ UNCHANGED <<now, settings_db, class_schedules, students, last_disappear_check,
                   current_schedule_key, schedule, pc, session_base>>
    /\ UNCHANGED <<streamVars, webVars>>

\* ai_loop, lines 260-280, for a face no gallery entry matches.
AiUnknownFace ==
    /\ pc = "faces"
    /\ face' = Unknown
    /\ UNCHANGED <<now, settings_db, cache, class_schedules, students,
                   attendance_logs, session_logged, last_seen, last_disappear_check,
                   current_schedule_key, schedule, pc, session_base>>
    /\ UNCHANGED <<streamVars, webVars>>

\* What a step inside log_attendance's deduplicated return leaves alone.
DedupRest ==
    /\ UNCHANGED <<now, settings_db, class_schedules, students, attendance_logs,
                   session_logged, last_disappear_check, current_schedule_key,
                   schedule, session_base>>
    /\ UNCHANGED <<streamVars, webVars>>

\* log_attendance, lines 148-155, for a face that matches gallery name n:
\* there is a schedule and the name's key is in session_logged.
DedupTest(n) ==
    /\ pc = "faces"
    /\ get_active_schedule(cache) # None
    /\ AlreadyLogged(n, get_active_schedule(cache)[1].id)
    /\ face' = n
    /\ cache' = CacheAfterGet(cache, "SYSTEM_MODE")
    /\ pc' = "dedup"
    /\ UNCHANGED last_seen
    /\ DedupRest

\* log_attendance, lines 156-157: last_seen[name] = time.time(), return.
DedupSet ==
    /\ pc = "dedup"
    /\ last_seen' = SetLastSeen(last_seen, face, now)
    /\ pc' = "faces"
    /\ UNCHANGED <<face, cache>>
    /\ DedupRest

\* The interpreter takes the processor from one detection thread and gives
\* it to the other one that runs on the same face_system.
Switch ==
    /\ old_ai_same > 0
    /\ pc' = other.pc
    /\ schedule' = other.schedule
    /\ face' = other.face
    /\ other' = [pc |-> pc, schedule |-> schedule, face |-> face]
    /\ UNCHANGED <<now, settings_db, cache, class_schedules, students,
                   attendance_logs, session_logged, last_seen, last_disappear_check,
                   current_schedule_key, session_base>>
    /\ UNCHANGED <<streamVars, detVars, camVars, setVars, apiVars, frameVars, local_cap, timetable_ok,
                   galVars, trkVars>>

\* ai_loop, lines 294-300: the cycle ends; the loop variable is assigned anew at line 263
\* before it is read again.
AiPublish ==
    /\ pc = "faces"
    /\ pc' = "schedule"
    /\ face' = ""
    /\ UNCHANGED <<now, settings_db, cache, class_schedules, students,
                   attendance_logs, session_logged, last_seen, last_disappear_check,
                   current_schedule_key, schedule, session_base>>
    /\ UNCHANGED <<streamVars, webVars>>

\* ------------------------------------------------------------ the pipeline
\* _open_camera's max_backoff and _capture_loop's max_failures.
max_backoff == 10
max_failures == 30

Threads == 1 .. MaxStarts
Handles == {1, 2}
Frame == "frame"

Min(a, b) == IF a <= b THEN a ELSE b

\* Faulty variant: the backoff doubles without a ceiling.
NextBackoff_Uncapped(b) == b * 2

\* _open_camera, line 139.
NextBackoff(b) == Min(b * 2, max_backoff)

\* The handle self._cap refers to, as a set (empty for None).
CapHandles == IF cap = None THEN {} ELSE {cap[1]}

\* cv2.VideoCapture(source): a new handle object.
NewHandle == CHOOSE h \in Handles : h \notin CapHandles

\* The open handles once self._cap is made to refer to the handles in new:
\* a VideoCapture object nothing refers to any more is destroyed, which
\* releases its camera.
OpenedAfterAssign(new) == (opened \ CapHandles) \cup new

\* Whether the detection thread of the latest start() is alive.
AiAlive == pc \in {"schedule", "sweep", "faces"}

\* The locals of a capture thread that enters _open_camera (lines 106-108).
EnterOpen(t) ==
    /\ backoff' = [backoff EXCEPT ![t] = 1]
    /\ attempt' = [attempt EXCEPT ![t] = 0]
    /\ waited' = [waited EXCEPT ![t] = 0]
    /\ cpc' = [cpc EXCEPT ![t] = "open_top"]

\* start(), lines 36-46, when is_running was found False: the flags, and a
\* new detection thread and capture thread.  (import dlib at line 146 cannot
\* fail: recognition_system, imported at line 9, has imported it already.)
StartThreads ==
    /\ started < MaxStarts
    /\ is_running' = TRUE
    /\ fs_is_running' = TRUE
    /\ stop_event' = FALSE
    /\ started' = started + 1
    /\ EnterOpen(started + 1)
    /\ pc' = "schedule"
    /\ face' = ""
    /\ schedule' = <<>>

\* start()
start ==
    /\ ctl = "idle"
    /\ IF is_running
       THEN UNCHANGED <<attVars, streamVars, webVars>>
       ELSE /\ StartThreads
            /\ old_ai_same' = old_ai_same + (IF AiAlive THEN 1 ELSE 0)
            /\ UNCHANGED <<now, settings_db, cache, class_schedules, students,
                           attendance_logs, session_logged, last_seen,
                           last_disappear_check, current_schedule_key, session_base>>
            /\ UNCHANGED <<cap, opened, consecutive_failures, latest_frame,
                           old_ai_orphan, ctl>>
            /\ UNCHANGED webVars

\* stop(), lines 51-55: the flags.  after: where the caller goes on.
StopFlags(after) ==
    /\ is_running' = FALSE
    /\ fs_is_running' = FALSE
    /\ stop_event' = TRUE
    /\ ctl' = after
    /\ UNCHANGED <<cap, opened, started, cpc, backoff, attempt, waited,
                   consecutive_failures, latest_frame, old_ai_same, old_ai_orphan>>

\* stop(), lines 57-61: the handle is released if it is open.  clear, after:
\* where the caller goes on when it released and when it did not.
StopRelease(clear, after) ==
    /\ IF cap # None /\ cap[1] \in opened
       THEN opened' = opened \ CapHandles /\ ctl' = clear
       ELSE UNCHANGED opened /\ ctl' = after
    /\ UNCHANGED <<is_running, fs_is_running, stop_event, cap, started, cpc, backoff,
                   attempt, waited, consecutive_failures, latest_frame, old_ai_same,
                   old_ai_orphan>>

\* stop(), line 62: self._cap = None, whatever a capture thread has stored
\* there since the release.
StopClear(after) ==
    /\ cap' = None
    /\ opened' = OpenedAfterAssign({})
    /\ ctl' = after
    /\ UNCHANGED <<is_running, fs_is_running, stop_event, started, cpc, backoff,
                   attempt, waited, consecutive_failures, latest_frame, old_ai_same,
                   old_ai_orphan>>

\* stop(), called on its own.
stop ==
    /\ UNCHANGED <<attVars, webVars>>
    /\ \/ /\ ctl = "idle"
          /\ IF is_running THEN StopFlags("stop_release") ELSE UNCHANGED streamVars
       \/ /\ ctl = "stop_release"
          /\ StopRelease("stop_clear", "idle")
       \/ /\ ctl = "stop_clear"
          /\ StopClear("idle")

\* restart(), lines 69-70: stop(), then the sleep.
restart_stop ==
    /\ UNCHANGED <<attVars, webVars>>
    /\ \/ /\ ctl = "idle"
          /\ IF is_running
             THEN StopFlags("restart_release")
             ELSE /\ ctl' = "restart_sleep"
                  /\ UNCHANGED <<is_running, fs_is_running, stop_event, cap, opened,
                                 started, cpc, backoff, attempt, waited,
                                 consecutive_failures, latest_frame, old_ai_same,
                                 old_ai_orphan>>
       \/ /\ ctl = "restart_release"
          /\ StopRelease("restart_clear", "restart_sleep")
       \/ /\ ctl = "restart_clear"
          /\ StopClear("restart_sleep")

\* restart(), line 70: time.sleep(0.5) is long enough for a thread that
\* stands at a loop test or in the wait of line 138 to get past it; a thread
\* inside cv2.VideoCapture(), inside read() or inside the detection of a
\* frame may stay there longer.
Slept ==
    /\ \A t \in Threads : cpc[t] \notin {"open_top", "open_wait", "loop"}
    /\ pc # "schedule"

\* restart(), lines 70-73: the sleep is over, a new FaceSystemThreaded (the
\* gallery is loaded again, the session starts empty, sync_students_to_db
\* runs), then start().
restart_start ==
    /\ ctl = "restart_sleep"
    /\ Slept
    /\ ~is_running
    /\ StartThreads
    /\ ctl' = "idle"
    /\ session_logged' = {}
    /\ last_seen' = EmptyMap
    /\ last_disappear_check' = 0
    /\ current_schedule_key' = None
    /\ session_base' = Len(attendance_logs)
    /\ latest_frame' = None
    /\ students' \in {students, students \cup Names}
    /\ old_ai_same' = 0
    /\ old_ai_orphan' = old_ai_orphan + old_ai_same + (IF AiAlive THEN 1 ELSE 0)
    /\ \E raises \in BOOLEAN : NewDetector(cache, raises)
    /\ cache' = CacheAfterGet(cache, "DETECTOR_MODEL")
    /\ UNCHANGED <<now, settings_db, class_schedules, attendance_logs>>
    /\ UNCHANGED <<cap, opened, consecutive_failures>>
    /\ UNCHANGED restVars

\* What a step of a capture thread leaves alone besides its own locals.
CaptureFrame ==
    /\ UNCHANGED <<attVars, webVars>>
    /\ UNCHANGED <<fs_is_running, stop_event, started, old_ai_same, old_ai_orphan, ctl>>

\* _open_camera, line 110, and what the caller does with None (lines 152-156
\* and 176-180): with the stop event set the routine returns None, the
\* capture loop clears is_running and ends; otherwise the attempt begins
\* (lines 111-122).
OpenTop(t) ==
    /\ cpc[t] = "open_top"
    /\ IF stop_event
       THEN /\ cap' = None
            /\ opened' = OpenedAfterAssign({})
            /\ is_running' = FALSE
            /\ cpc' = [cpc EXCEPT ![t] = "done"]
            /\ UNCHANGED attempt
       ELSE /\ attempt' = [attempt EXCEPT ![t] = @ + 1]
            /\ cpc' = [cpc EXCEPT ![t] = "open_try"]
            /\ UNCHANGED <<cap, opened, is_running>>
    /\ UNCHANGED <<backoff, waited, consecutive_failures, latest_frame>>
    /\ CaptureFrame

\* _open_camera, lines 122-131, and the caller's lines 152, 158 and 176,
\* 181-183: the camera opens, the handle is stored, the failure count is 0
\* and the capture loop is at its top.
OpenSucceeds(t) ==
    /\ cpc[t] = "open_try"
    /\ cap' = Some(NewHandle)
    /\ opened' = OpenedAfterAssign({NewHandle})
    /\ consecutive_failures' = [consecutive_failures EXCEPT ![t] = 0]
    /\ cpc' = [cpc EXCEPT ![t] = "loop"]
    /\ UNCHANGED <<is_running, backoff, attempt, waited, latest_frame>>
    /\ CaptureFrame

\* _open_camera, lines 132-138: the camera does not open, the wait begins.
OpenFails(t) ==
    /\ cpc[t] = "open_try"
    /\ attempt[t] < MaxAttempts
    /\ waited' = [waited EXCEPT ![t] = 0]
    /\ cpc' = [cpc EXCEPT ![t] = "open_wait"]
    /\ UNCHANGED <<is_running, cap, opened, backoff, attempt,
                   consecutive_failures, latest_frame>>
    /\ CaptureFrame

\* The handles there are, and a handle that is neither open nor referred to.
HandlePool == 1 .. MaxStarts + 2
FreshHandle ==
    CHOOSE h \in HandlePool :
        /\ h \notin opened \cup CapHandles
        /\ \A t \in Threads : local_cap[t] # Some(h)

\* What a step of a capture thread inside _open_camera leaves alone, the
\* local cap apart.
OpeningRest ==
    /\ UNCHANGED <<attVars, detVars, camVars, setVars, apiVars, frameVars>>
    /\ UNCHANGED <<other, timetable_ok, galVars, trkVars>>
    /\ UNCHANGED <<fs_is_running, stop_event, started, old_ai_same, old_ai_orphan, ctl>>
    /\ UNCHANGED <<is_running, backoff, attempt, waited, latest_frame>>

\* _open_camera, lines 122-131: cv2.VideoCapture returns an open handle,
\* which the local cap refers to until the routine has returned it.
OpenHandle(t) ==
    /\ cpc[t] = "open_try"
    /\ local_cap' = [local_cap EXCEPT ![t] = Some(FreshHandle)]
    /\ opened' = opened \cup {FreshHandle}
    /\ cpc' = [cpc EXCEPT ![t] = "open_return"]
    /\ UNCHANGED <<cap, consecutive_failures>>
    /\ OpeningRest

\* The caller's lines 152, 158 and 176, 181-183: the handle is stored in
\* self._cap (the object self._cap referred to is destroyed, nothing else
\* referring to it), the failure count is 0 and the capture loop is at its
\* top.
OpenAssign(t) ==
    /\ cpc[t] = "open_return"
    /\ cap' = local_cap[t]
    /\ opened' = OpenedAfterAssign({local_cap[t][1]})
    /\ local_cap' = [local_cap EXCEPT ![t] = None]
    /\ consecutive_failures' = [consecutive_failures EXCEPT ![t] = 0]
    /\ cpc' = [cpc EXCEPT ![t] = "loop"]
    /\ OpeningRest

\* Faulty variant: the wait is a plain sleep that the event does not end.
StillWaiting_Sleep(t) == waited[t] < backoff[t]

\* Whether _stop_event.wait(backoff), line 138, goes on waiting: the event is
\* clear and the timeout has not run out.
StillWaiting(t) == ~stop_event /\ waited[t] < backoff[t]

\* One second of the wait of line 138.
OpenWaitSecond(t) ==
    /\ cpc[t] = "open_wait"
    /\ StillWaiting(t)
    /\ waited' = [waited EXCEPT ![t] = @ + 1]
    /\ UNCHANGED <<is_running, cap, opened, cpc, backoff, attempt,
                   consecutive_failures, latest_frame>>
    /\ CaptureFrame

\* _open_camera, lines 138-139: the wait is over, the backoff doubles up to
\* max_backoff.
OpenWaitEnds(t) ==
    /\ cpc[t] = "open_wait"
    /\ ~StillWaiting(t)
    /\ backoff' = [backoff EXCEPT ![t] = NextBackoff(@)]
    /\ cpc' = [cpc EXCEPT ![t] = "open_top"]
    /\ UNCHANGED <<is_running, cap, opened, attempt, waited,
                   consecutive_failures, latest_frame>>
    /\ CaptureFrame

\* Faulty variant: the loop ends without the cleanup of lines 225-231.
CaptureTop_NoCleanup(t) ==
    /\ cpc[t] = "loop"
    /\ cpc' = [cpc EXCEPT ![t] = IF stop_event THEN "done" ELSE "read"]
    /\ UNCHANGED <<is_running, cap, opened, backoff, attempt, waited,
                   consecutive_failures, latest_frame>>
    /\ CaptureFrame

\* _capture_loop, line 161 and lines 225-231: with the stop event set the
\* loop ends and releases the handle; otherwise it reads.
CaptureTop(t) ==
    /\ cpc[t] = "loop"
    /\ IF stop_event
       THEN /\ cap' = None
            /\ opened' = opened \ CapHandles
            /\ cpc' = [cpc EXCEPT ![t] = "done"]
       ELSE /\ cpc' = [cpc EXCEPT ![t] = "read"]
            /\ UNCHANGED <<cap, opened>>
    /\ UNCHANGED <<is_running, backoff, attempt, waited, consecutive_failures,
                   latest_frame>>
    /\ CaptureFrame

\* _capture_loop, lines 162-166 and 185-223: a frame is read from an open
\* handle and published.
ReadSucceeds(t) ==
    /\ cpc[t] = "read"
    /\ cap # None
    /\ cap[1] \in opened
    /\ consecutive_failures' = [consecutive_failures EXCEPT ![t] = 0]
    /\ latest_frame' = Some(Frame)
    /\ cpc' = [cpc EXCEPT ![t] = "loop"]
    /\ UNCHANGED <<is_running, cap, opened, backoff, attempt, waited>>
    /\ CaptureFrame

\* Faulty variant: the reconnect comes one failure late.
ReconnectDue_Late(failures) == failures + 1 > max_failures

\* Whether the failure branch reconnects (line 170), given the count so far.
ReconnectDue(failures) == failures + 1 >= max_failures

\* Faulty variant: the failed read empties the latest-frame slot.
ReadFails_Publish(t) ==
    /\ cpc[t] = "read"
    /\ consecutive_failures' = [consecutive_failures EXCEPT ![t] = @ + 1]
    /\ IF ReconnectDue(consecutive_failures[t])
       THEN /\ opened' = opened \ CapHandles
            /\ EnterOpen(t)
       ELSE /\ cpc' = [cpc EXCEPT ![t] = "loop"]
            /\ UNCHANGED <<opened, backoff, attempt, waited>>
    /\ latest_frame' = None
    /\ UNCHANGED <<is_running, cap>>
    /\ CaptureFrame

\* _capture_loop, lines 162-183: the read fails (or raises); after
\* max_failures in a row the handle is released and _open_camera is entered.
ReadFails(t) ==
    /\ cpc[t] = "read"
    /\ consecutive_failures' = [consecutive_failures EXCEPT ![t] = @ + 1]
    /\ IF ReconnectDue(consecutive_failures[t])
       THEN /\ opened' = opened \ CapHandles
            /\ EnterOpen(t)
       ELSE /\ cpc' = [cpc EXCEPT ![t] = "loop"]
            /\ UNCHANGED <<opened, backoff, attempt, waited>>
    /\ UNCHANGED <<is_running, cap, latest_frame>>
    /\ CaptureFrame

\* One step of a capture thread.
capture_loop(t) ==
    \/ OpenTop(t)
    \/ OpenSucceeds(t)
    \/ OpenFails(t)
    \/ OpenWaitSecond(t)
    \/ OpenWaitEnds(t)
    \/ CaptureTop(t)
    \/ ReadSucceeds(t)
    \/ ReadFails(t)

\* ai_loop, line 224: the detection thread finds the face_system stopped and
\* returns.
AiExit ==
    /\ pc = "schedule"
    /\ ~fs_is_running
    /\ pc' = "done"
    /\ UNCHANGED <<now, settings_db, cache, class_schedules, students, attendance_logs,
                   session_logged, last_seen, last_disappear_check,
                   current_schedule_key, schedule, face, session_base>>
    /\ UNCHANGED <<streamVars, webVars>>

\* An exception in the body of ai_loop (the detector, the encoder, the
\* database) is caught by nothing but _safe_ai_loop (lines 96-100), which
\* logs it and returns: the thread is over, no flag is touched.
AiCrash ==
    /\ pc \in {"sweep", "faces"}
    /\ pc' = "crashed"
    /\ UNCHANGED <<now, settings_db, cache, class_schedules, students, attendance_logs,
                   session_logged, last_seen, last_disappear_check,
                   current_schedule_key, schedule, face, session_base>>
    /\ UNCHANGED <<streamVars, webVars>>

\* A detection thread of an earlier start() returns at line 224: one that
\* runs on the current face_system when that is stopped, one that runs on a
\* replaced face_system (stopped for good) at any time.
OldAiExit ==
    /\ \/ /\ old_ai_same > 0
          /\ ~fs_is_running
          /\ old_ai_same' = old_ai_same - 1
          /\ UNCHANGED old_ai_orphan
       \/ /\ old_ai_orphan > 0
          /\ old_ai_orphan' = old_ai_orphan - 1
          /\ UNCHANGED old_ai_same
    /\ UNCHANGED <<attVars, webVars>>
    /\ UNCHANGED <<is_running, fs_is_running, stop_event, cap, opened, started, cpc,
                   backoff, attempt, waited, consecutive_failures, latest_frame,
                   ctl>>

\* get_status(), line 84.
ai_running == is_running

\* -------------------------------------------------------- frame exchange
\* The images the camera delivers come round after MaxImages; an array holds
\* an image, mirrored or not, and the marks drawn on it.
MaxImages == 2
Objects == 1 .. MaxStarts + 1
Blank == [image |-> 0, mirrored |-> FALSE, marks |-> {}]

\* The threads that take the locks.
CaptureThread(t) == [role |-> "capture-loop", t |-> t]
AiThread == [role |-> "ai-loop", t |-> 0]
Consumer == [role |-> "generate_frames", t |-> 0]

\* cv2.flip(frame, 1), line 186: a new array with the image mirrored.
Flipped(image) == [image |-> image, mirrored |-> TRUE, marks |-> {}]

\* An array no slot and no local refers to (the memory of a new array).
FreeObject ==
    CHOOSE o \in Objects :
        /\ latest_frame # Some(o)
        /\ \A t \in Threads : frame[t] # o

\* cv2.imencode('.jpg', frame, ...), line 243, and the part of line 249.
Jpeg(array) == [jpeg |-> array]

\* What a step of a capture thread on its frame leaves alone.
FrameStepRest ==
    /\ UNCHANGED <<now, settings_db, class_schedules, students, attendance_logs,
                   session_logged, last_seen, last_disappear_check,
                   current_schedule_key, schedule, face, pc, session_base>>
    /\ UNCHANGED <<is_running, fs_is_running, stop_event, cap, opened, started,
                   backoff, attempt, waited, old_ai_same, old_ai_orphan, ctl>>
    /\ UNCHANGED <<detVars, camVars, setVars, apiVars, moreVars>>
    /\ UNCHANGED <<tracking_names, detected_results, new_results_available,
                   frame_to_process, gpc, gen_frame, yielded, polled_empty>>

\* _capture_loop, lines 162-166 and 185-186: a frame is read from an open
\* handle and mirrored.
FrameRead(t) ==
    /\ cpc[t] = "read"
    /\ cap # None
    /\ cap[1] \in opened
    /\ consecutive_failures' = [consecutive_failures EXCEPT ![t] = 0]
    /\ frame' = [frame EXCEPT ![t] = FreeObject]
    /\ heap' = [heap EXCEPT ![FreeObject] = Flipped(camera_image)]
    /\ camera_image' = (camera_image % MaxImages) + 1
    /\ cpc' = [cpc EXCEPT ![t] = "enter"]
    /\ UNCHANGED <<cache, latest_frame, lock, stream_lock, current_names, output_frame,
                   published_frames>>
    /\ FrameStepRest

\* line 189: the capture thread takes face_system.lock.
PublishEnter(t) ==
    /\ cpc[t] = "enter"
    /\ lock = None
    /\ lock' = Some(CaptureThread(t))
    /\ cpc' = [cpc EXCEPT ![t] = "publish"]
    /\ UNCHANGED <<cache, latest_frame, consecutive_failures, stream_lock, heap,
                   camera_image, frame, current_names, output_frame, published_frames>>
    /\ FrameStepRest

\* The heap once the latest-frame slot refers to the array of thread t: the
\* array the slot referred to is freed when no local refers to it either.
HeapAfterPublish(t) ==
    IF /\ latest_frame # None
       /\ \A u \in Threads : frame[u] # latest_frame[1]
    THEN [heap EXCEPT ![latest_frame[1]] = Blank]
    ELSE heap

\* lines 190-192: the array itself goes into the latest-frame slot, the
\* tracker and name lists are copied, the lock is given back.
Publish(t) ==
    /\ cpc[t] = "publish"
    /\ latest_frame' = Some(frame[t])
    /\ heap' = HeapAfterPublish(t)
    /\ current_names' = [current_names EXCEPT ![t] = tracking_names]
    /\ lock' = None
    /\ cpc' = [cpc EXCEPT ![t] = "draw"]
    /\ UNCHANGED <<cache, consecutive_failures, stream_lock, camera_image, frame,
                   output_frame, published_frames>>
    /\ FrameStepRest

\* lines 195-210: tracker.update and, unless it raises, a box and a name
\* drawn on the array for each tracker.
DrawTrackers(t) ==
    /\ cpc[t] = "draw"
    /\ \E raises \in BOOLEAN :
          heap' = [heap EXCEPT ![frame[t]].marks =
                      IF current_names[t] = <<>> \/ raises THEN @ ELSE @ \cup {"boxes"}]
    /\ cpc' = [cpc EXCEPT ![t] = "overlay"]
    /\ UNCHANGED <<cache, latest_frame, consecutive_failures, lock, stream_lock,
                   camera_image, frame, current_names, output_frame, published_frames>>
    /\ FrameStepRest

\* lines 213-218: the status overlay is drawn on the array (the key
\* DETECTION_SCALE of line 214 is none of the keys the settings store is
\* modelled with).
DrawOverlay(t) ==
    /\ cpc[t] = "overlay"
    /\ cache' = CacheAfterGet(cache, "SYSTEM_MODE")
    /\ heap' = [heap EXCEPT ![frame[t]].marks = @ \cup {"status"}]
    /\ cpc' = [cpc EXCEPT ![t] = "out_enter"]
    /\ UNCHANGED <<latest_frame, consecutive_failures, lock, stream_lock,
                   camera_image, frame, current_names, output_frame, published_frames>>
    /\ FrameStepRest

\* line 220: the capture thread takes VideoStream.lock.
OutputEnter(t) ==
    /\ cpc[t] = "out_enter"
    /\ stream_lock = None
    /\ stream_lock' = Some(CaptureThread(t))
    /\ cpc' = [cpc EXCEPT ![t] = "output"]
    /\ UNCHANGED <<cache, latest_frame, consecutive_failures, lock, heap, camera_image,
                   frame, current_names, output_frame, published_frames>>
    /\ FrameStepRest

\* lines 221-223: a copy of the array goes into the output slot, the lock
\* is given back, the thread sleeps and comes back to the top of its loop.
Output(t) ==
    /\ cpc[t] = "output"
    /\ output_frame' = Some(heap[frame[t]])
    /\ published_frames' = published_frames \cup {heap[frame[t]]}
    /\ stream_lock' = None
    /\ cpc' = [cpc EXCEPT ![t] = "loop"]
    /\ UNCHANGED <<cache, latest_frame, consecutive_failures, lock, heap, camera_image,
                   frame, current_names>>
    /\ FrameStepRest

\* One step of a capture thread whose camera is open and reads without fail,
\* frame by frame.
capture_frames(t) ==
    \/ CaptureTop(t)
    \/ FrameRead(t)
    \/ PublishEnter(t)
    \/ Publish(t)
    \/ DrawTrackers(t)
    \/ DrawOverlay(t)
    \/ OutputEnter(t)
    \/ Output(t)

\* What a step of the detection thread at the lock leaves alone.
AiLockRest ==
    /\ UNCHANGED <<now, settings_db, cache, class_schedules, students, attendance_logs,
                   session_logged, last_seen, last_disappear_check,
                   current_schedule_key, schedule, session_base>>
    /\ UNCHANGED <<streamVars, detVars, camVars, setVars, apiVars, moreVars>>
    /\ UNCHANGED <<stream_lock, heap, camera_image, frame, current_names, output_frame,
                   gpc, gen_frame, yielded, published_frames, polled_empty>>

\* ai_loop, lines 224-226: the loop goes on and takes face_system.lock.
SnapshotEnter ==
    /\ pc = "schedule"
    /\ frame_to_process = None
    /\ fs_is_running
    /\ lock = None
    /\ lock' = Some(AiThread)
    /\ pc' = "snapshot"
    /\ UNCHANGED <<face, tracking_names, detected_results, new_results_available,
                   frame_to_process>>
    /\ AiLockRest

\* lines 227-230 and 301-302: a copy of what the latest-frame slot refers
\* to, the lock given back; with the slot empty the thread sleeps and comes
\* back to the top of the loop.
Snapshot ==
    /\ pc = "snapshot"
    /\ frame_to_process' = IF latest_frame = None THEN None
                           ELSE Some(heap[latest_frame[1]])
    /\ lock' = None
    /\ pc' = "schedule"
    /\ UNCHANGED <<face, tracking_names, detected_results, new_results_available>>
    /\ AiLockRest

\* lines 230-236 with a frame taken: the detector setting, the schedule and
\* the session (AiSchedule, after the loop condition and the frame test).
ProcessSchedule ==
    /\ pc = "schedule"
    /\ frame_to_process # None
    /\ \E raises \in BOOLEAN : check_settings_change(cache, raises)
    /\ schedule' = Some(get_active_schedule(cache))
    /\ cache' = CacheAfterGet(CacheAfterGet(cache, "DETECTOR_MODEL"), "SYSTEM_MODE")
    /\ maybe_reset_session(get_active_schedule(cache))
    /\ pc' = "sweep"
    /\ UNCHANGED <<now, settings_db, class_schedules, students, attendance_logs,
                   last_disappear_check, face>>
    /\ UNCHANGED <<streamVars, restVars>>

\* line 294: the detection thread takes face_system.lock for its results.
ResultsEnter ==
    /\ pc = "faces"
    /\ lock = None
    /\ lock' = Some(AiThread)
    /\ pc' = "results"
    /\ UNCHANGED <<face, tracking_names, detected_results, new_results_available,
                   frame_to_process>>
    /\ AiLockRest

\* lines 282-300: the results and the new trackers with their names are
\* published (the trackers only while the face_system runs), the lock is
\* given back and the cycle ends.
Results ==
    /\ pc = "results"
    /\ detected_results' = (IF face = "" THEN <<>> ELSE <<face>>)
    /\ tracking_names' = (IF face = "" \/ ~fs_is_running THEN <<>> ELSE <<face>>)
    /\ new_results_available' = TRUE
    /\ frame_to_process' = None
    /\ face' = ""
    /\ lock' = None
    /\ pc' = "schedule"
    /\ AiLockRest

\* One step of the detection thread, frame by frame, on frames that show
\* one face at most.
ai_frames ==
    \/ SnapshotEnter
    \/ Snapshot
    \/ ProcessSchedule
    \/ AiSweep
    \/ (face = "" /\ AiKnownFace)
    \/ (face = "" /\ AiUnknownFace)
    \/ ResultsEnter
    \/ Results
    \/ (frame_to_process = None /\ AiExit)

\* The faces a frame shows at most, and the detection cycles of a run.
MaxFaces == 2
MaxCycles == 2

\* dlib.correlation_tracker() started on an image (lines 288-290).
Tracker(c, i, name, image) == [cycle |-> c, i |-> i, target |-> name, at |-> image]

\* The names the trackers of a list were built for.
Targets(list) == [i \in 1 .. Len(list) |-> list[i].target]

\* The mark of the box and the name drawn for the tracker at place i.
BoxMark(i) == CASE i = 1 -> "box1" [] i = 2 -> "box2" [] i = 3 -> "box3" [] OTHER -> "box"

\* tracker.update(frame) on the trackers of list at the places in ok; a
\* tracker is one object whichever list refers to it.
Same(a, b) == a.cycle = b.cycle /\ a.i = b.i
UpdatedIn(list, mine, ok, image) ==
    [k \in 1 .. Len(list) |->
        IF \E i \in ok : Same(list[k], mine[i])
        THEN [list[k] EXCEPT !.at = image]
        ELSE list[k]]

\* What a step of a capture thread on the tracker lists leaves alone.
CaptureTrackRest ==
    /\ UNCHANGED <<attVars, detVars, camVars, setVars, apiVars, local_cap, other,
                   timetable_ok, galVars>>
    /\ UNCHANGED <<is_running, fs_is_running, stop_event, cap, opened, started,
                   backoff, attempt, waited, consecutive_failures, old_ai_same,
                   old_ai_orphan, ctl>>
    /\ UNCHANGED <<stream_lock, camera_image, frame, tracking_names, detected_results,
                   new_results_available, frame_to_process, output_frame, gpc,
                   gen_frame, yielded, published_frames, polled_empty>>
    /\ UNCHANGED <<results, new_trackers, cycle>>

\* _capture_loop, lines 190-192: the array itself goes into the latest-frame
\* slot, the tracker list and the name list are copied (the trackers are not),
\* the lock is given back.
CopyLists(t) ==
    /\ cpc[t] = "publish"
    /\ latest_frame' = Some(frame[t])
    /\ heap' = HeapAfterPublish(t)
    /\ current_trackers' = [current_trackers EXCEPT ![t] = trackers]
    /\ current_names' = [current_names EXCEPT ![t] = tracking_names]
    /\ lock' = None
    /\ cpc' = [cpc EXCEPT ![t] = "draw"]
    /\ UNCHANGED <<trackers, raised>>
    /\ CaptureTrackRest

\* Faulty variant: the first tracker that raises ends the pass.
Drawn_Abort(t, bad) == {i \in 1 .. Len(current_trackers[t]) : \A b \in bad : i < b}

\* The places a pass over the trackers draws when the trackers at the
\* places in bad raise (the try of lines 195-210 is inside the loop).
Drawn(t, bad) == (1 .. Len(current_trackers[t])) \ bad

\* _capture_loop, lines 194-210: for each tracker of the copy, update on the
\* frame, then its box and name drawn on the array; a tracker that raises
\* (in update, or later with the update made) is passed over.
TrackAndDraw(t) ==
    /\ cpc[t] = "draw"
    /\ \E bad \in SUBSET (1 .. Len(current_trackers[t])) :
       \E late \in SUBSET bad :
          LET ok == Drawn(t, bad) \cup late
              image == heap[frame[t]].image
          IN  /\ raised' = [raised EXCEPT ![t] = bad]
              /\ current_trackers' =
                     [current_trackers EXCEPT
                         ![t] = UpdatedIn(@, current_trackers[t], ok, image)]
              /\ trackers' = UpdatedIn(trackers, current_trackers[t], ok, image)
              /\ heap' = [heap EXCEPT ![frame[t]].marks =
                              @ \cup {BoxMark(i) : i \in Drawn(t, bad)}]
    /\ cpc' = [cpc EXCEPT ![t] = "overlay"]
    /\ UNCHANGED <<latest_frame, lock, current_names>>
    /\ CaptureTrackRest

\* lines 221-223 as in Output, the history of the copies not kept.
OutputCopy(t) ==
    /\ cpc[t] = "output"
    /\ output_frame' = Some(heap[frame[t]])
    /\ stream_lock' = None
    /\ cpc' = [cpc EXCEPT ![t] = "loop"]
    /\ UNCHANGED <<cache, latest_frame, consecutive_failures, lock, heap, camera_image,
                   frame, current_names, published_frames>>
    /\ FrameStepRest

\* One step of a capture thread whose camera is open and reads without fail,
\* frame by frame, with the trackers.
capture_trackers(t) ==
    \/ CaptureTop(t)
    \/ FrameRead(t)
    \/ PublishEnter(t)
    \/ CopyLists(t)
    \/ TrackAndDraw(t)
    \/ DrawOverlay(t)
    \/ OutputEnter(t)
    \/ OutputCopy(t)

\* What a step of the detection thread on the tracker lists leaves alone.
AiTrackRest ==
    /\ UNCHANGED <<now, settings_db, class_schedules, students, last_disappear_check,
                   current_schedule_key, schedule, session_base>>
    /\ UNCHANGED <<streamVars, detVars, camVars, setVars, apiVars, local_cap, other,
                   timetable_ok, galVars>>
    /\ UNCHANGED <<stream_lock, heap, camera_image, frame, current_names, output_frame,
                   gpc, gen_frame, yielded, published_frames, polled_empty>>
    /\ UNCHANGED <<current_trackers, raised>>

\* The faces before the camera in the order the detector gives them: alice,
\* then strangers.
NextFace == IF results = <<>> THEN "alice" ELSE Unknown

\* ai_loop, lines 260-280, for one more face of the frame: n is the gallery
\* name it matches, or Unknown.
FaceSeen(n, fail) ==
    /\ pc = "faces"
    /\ Len(results) < MaxFaces
    /\ face' = n
    /\ IF n = Unknown
       THEN UNCHANGED <<cache, attendance_logs, session_logged, last_seen>>
       ELSE log_attendance(n, fail)
    /\ results' = Append(results, n)
    /\ UNCHANGED <<pc, lock, tracking_names, detected_results, new_results_available,
                   frame_to_process, trackers, new_trackers, cycle>>
    /\ AiTrackRest

\* ai_loop, lines 283-294: a new tracker for each result, started on the
\* frame taken, while the face_system runs; then the thread takes
\* face_system.lock.
BuildTrackers ==
    /\ pc = "faces"
    /\ cycle < MaxCycles
    /\ lock = None
    /\ new_trackers' =
           IF fs_is_running
           THEN [i \in 1 .. Len(results) |->
                    Tracker(cycle + 1, i, results[i], frame_to_process[1].image)]
           ELSE <<>>
    /\ lock' = Some(AiThread)
    /\ pc' = "results"
    /\ UNCHANGED <<cache, attendance_logs, session_logged, last_seen, face>>
    /\ UNCHANGED <<tracking_names, detected_results, new_results_available,
                   frame_to_process, trackers, results, cycle>>
    /\ AiTrackRest

\* Faulty variant: the new trackers are added to those of the cycle before.
PublishResults_Keep ==
    /\ pc = "results"
    /\ detected_results' = results
    /\ trackers' = trackers \o new_trackers
    /\ tracking_names' = Targets(new_trackers)
    /\ new_results_available' = TRUE
    /\ cycle' = cycle + 1
    /\ results' = <<>>
    /\ new_trackers' = <<>>
    /\ frame_to_process' = None
    /\ face' = ""
    /\ lock' = None
    /\ pc' = "schedule"
    /\ UNCHANGED <<cache, attendance_logs, session_logged, last_seen>>
    /\ AiTrackRest

\* ai_loop, lines 295-300: the results, the new trackers and their names
\* take the place of the old ones, the lock is given back and the cycle
\* ends.
PublishResults ==
    /\ pc = "results"
    /\ detected_results' = results
    /\ trackers' = new_trackers
    /\ tracking_names' = Targets(new_trackers)
    /\ new_results_available' = TRUE
    /\ cycle' = cycle + 1
    /\ results' = <<>>
    /\ new_trackers' = <<>>
    /\ frame_to_process' = None
    /\ face' = ""
    /\ lock' = None
    /\ pc' = "schedule"
    /\ UNCHANGED <<cache, attendance_logs, session_logged, last_seen>>
    /\ AiTrackRest

\* One step of the detection thread, frame by frame, on frames that show
\* MaxFaces faces at most.
ai_trackers ==
    \/ SnapshotEnter
    \/ Snapshot
    \/ ProcessSchedule
    \/ AiSweep
    \/ \E fail \in {"none", "connect", "insert"} : FaceSeen(NextFace, fail)
    \/ BuildTrackers
    \/ PublishResults
    \/ (frame_to_process = None /\ AiExit)

\* What a step of generate_frames leaves alone.
GenRest ==
    /\ UNCHANGED <<attVars, streamVars, detVars, camVars, setVars, apiVars, moreVars>>
    /\ UNCHANGED <<lock, heap, camera_image, frame, current_names, tracking_names,
                   detected_results, new_results_available, frame_to_process,
                   output_frame, published_frames>>

\* views.py, line 119: a consumer asks for the stream and the generator is
\* made.
GenStart ==
    /\ gpc = "idle"
    /\ gpc' = "test"
    /\ UNCHANGED <<stream_lock, gen_frame, yielded, polled_empty>>
    /\ GenRest

\* generate_frames, line 235: the loop condition.
GenTest ==
    /\ gpc = "test"
    /\ gpc' = IF is_running THEN "enter" ELSE "done"
    /\ UNCHANGED <<stream_lock, gen_frame, yielded, polled_empty>>
    /\ GenRest

\* line 236: the generator takes VideoStream.lock.
GenEnter ==
    /\ gpc = "enter"
    /\ stream_lock = None
    /\ stream_lock' = Some(Consumer)
    /\ gpc' = "peek"
    /\ UNCHANGED <<gen_frame, yielded, polled_empty>>
    /\ GenRest

\* Faulty variant: the output slot is copied without the test of line 237,
\* and the copy of None raises.
GenPeek_NoTest ==
    /\ gpc = "peek"
    /\ IF output_frame = None
       THEN /\ gpc' = "failed"
            /\ UNCHANGED gen_frame
       ELSE /\ gen_frame' = output_frame
            /\ gpc' = "encode"
    /\ stream_lock' = None
    /\ UNCHANGED <<yielded, polled_empty>>
    /\ GenRest

\* lines 237-240: with the output slot empty the generator sleeps (holding
\* the lock) and goes back to the loop condition; otherwise it copies the
\* output frame.  The lock is given back either way.
GenPeek ==
    /\ gpc = "peek"
    /\ IF output_frame = None
       THEN /\ polled_empty' = TRUE
            /\ gpc' = "test"
            /\ UNCHANGED gen_frame
       ELSE /\ gen_frame' = output_frame
            /\ gpc' = "encode"
            /\ UNCHANGED polled_empty
    /\ stream_lock' = None
    /\ UNCHANGED yielded
    /\ GenRest

\* lines 242-250: the copy is encoded and the part yielded, or the encoder
\* fails and the loop goes on.
GenEncode ==
    /\ gpc = "encode"
    /\ \E encoded \in BOOLEAN :
          IF encoded
          THEN /\ yielded' = Some(Jpeg(gen_frame[1]))
               /\ gpc' = "yield"
          ELSE /\ gpc' = "test"
               /\ UNCHANGED yielded
    /\ UNCHANGED <<stream_lock, gen_frame, polled_empty>>
    /\ GenRest

\* line 252: the consumer asks for the next part; the generator sleeps and
\* goes back to the loop condition.
GenResume ==
    /\ gpc = "yield"
    /\ gpc' = "test"
    /\ UNCHANGED <<stream_lock, gen_frame, yielded, polled_empty>>
    /\ GenRest

\* One step of the generator once it is made.
generate_frames ==
    \/ GenTest
    \/ GenEnter
    \/ GenPeek
    \/ GenEncode
    \/ GenResume

\* ------------------------------------------------------------ start state
Row(id, day, from, to, active) ==
    [id |-> id, day_of_week |-> day, start_time |-> from, end_time |-> to,
     is_active |-> active]

\* One class on day 0, the whole day long, and a class on day 1 switched off.
Weekly ==
    {Row(1, 0, TimeStr(0, TRUE), TimeStr(MinPerDay - 1, TRUE), TRUE),
     Row(2, 1, TimeStr(0, TRUE), TimeStr(MinPerDay - 1, TRUE), FALSE)}

\* Two classes back to back on day 0; the start_time of the second does not
\* parse.
BackToBack ==
    {Row(1, 0, TimeStr(0, TRUE), TimeStr(0, TRUE), TRUE),
     Row(2, 0, TimeStr(0, FALSE), TimeStr(MinPerDay - 1, TRUE), TRUE)}

Timetables == {Weekly, BackToBack}

LateValues == {"0"}
DisappearValues == {"1"}
RecheckValues == {"1"}

\* The students table: sync_students_to_db put every gallery name in, or
\* failed on the way.
StudentStores == {Names, {}}

\* The pipeline as app.py's video_stream.start() (line 96) and a first frame
\* leave it: both loops run, the camera is open.
Streaming ==
    /\ is_running = TRUE
    /\ fs_is_running = TRUE
    /\ stop_event = FALSE
    /\ cap = Some(1)
    /\ opened = {1}
    /\ started = 1
    /\ cpc = [t \in Threads |-> IF t = 1 THEN "loop" ELSE "idle"]
    /\ backoff = [t \in Threads |-> 1]
    /\ attempt = [t \in Threads |-> IF t = 1 THEN 1 ELSE 0]
    /\ waited = [t \in Threads |-> 0]
    /\ consecutive_failures = [t \in Threads |-> 0]
    /\ latest_frame = Some(Frame)
    /\ old_ai_same = 0
    /\ old_ai_orphan = 0
    /\ ctl = "idle"

\* The pipeline as VideoStream.__init__ (lines 21-28) leaves it: nothing
\* runs, no camera, no frame.
Constructed ==
    /\ is_running = FALSE
    /\ fs_is_running = FALSE
    /\ stop_event = FALSE
    /\ cap = None
    /\ opened = {}
    /\ started = 0
    /\ cpc = [t \in Threads |-> "idle"]
    /\ backoff = [t \in Threads |-> 1]
    /\ attempt = [t \in Threads |-> 0]
    /\ waited = [t \in Threads |-> 0]
    /\ consecutive_failures = [t \in Threads |-> 0]
    /\ latest_frame = None
    /\ old_ai_same = 0
    /\ old_ai_orphan = 0
    /\ ctl = "idle"

\* The camera registry as init_db seeds it (lines 76-81), nothing resolved.
SeededCameras ==
    /\ cameras = {Camera(1, 1)}
    /\ camera_seq = 1
    /\ cam_config = None

\* No frame has been read, no result published, no consumer connected
\* (FaceSystemThreaded.__init__, lines 26-44; VideoStream.__init__, lines
\* 23-24).
NoFrames ==
    /\ lock = None
    /\ stream_lock = None
    /\ heap = [o \in Objects |-> Blank]
    /\ camera_image = 1
    /\ frame = [t \in Threads |-> 0]
    /\ current_names = [t \in Threads |-> <<>>]
    /\ tracking_names = <<>>
    /\ detected_results = <<>>
    /\ new_results_available = FALSE
    /\ frame_to_process = None
    /\ output_frame = None
    /\ gpc = "idle"
    /\ gen_frame = None
    /\ yielded = None
    /\ published_frames = {}
    /\ polled_empty = FALSE

\* No detection cycle has published a tracker.
NoTrackers ==
    /\ trackers = <<>>
    /\ current_trackers = [t \in Threads |-> <<>>]
    /\ results = <<>>
    /\ new_trackers = <<>>
    /\ cycle = 0
    /\ raised = [t \in Threads |-> {}]

\* No capture thread is inside _open_camera with a handle of its own.
NoOpening == local_cap = [t \in Threads |-> None]

\* The locals of a detection thread that has not begun.
Parked == [pc |-> "idle", schedule |-> <<>>, face |-> ""]
NoSecondDetector == other = Parked

\* The timetable can be read.
TimetableUp == timetable_ok = TRUE

\* The embedding face_recognition computes from a picture of n.
Encoding(n) == [of |-> n]

\* A value unpickled from the store under "names" or "encodings": a list or
\* something else.
List(items) == [list |-> TRUE, items |-> items]
NotList == [list |-> FALSE, items |-> <<>>]

\* The store: no file, a file that does not unpickle, an object that is not
\* a dict, or a dict.
StoreOf(state, names, encodings) ==
    [state |-> state, names |-> names, encodings |-> encodings]
Stores ==
    {StoreOf("missing", List(<<>>), List(<<>>)),
     StoreOf("unreadable", List(<<>>), List(<<>>)),
     StoreOf("notdict", List(<<>>), List(<<>>)),
     StoreOf("dict", NotList, List(<<Encoding("alice")>>)),
     StoreOf("dict", List(<<"alice">>), NotList),
     StoreOf("dict", List(<<"alice">>), List(<<Encoding("alice")>>)),
     StoreOf("dict", List(<<"alice", "carol">>), List(<<Encoding("alice")>>)),
     StoreOf("dict", List(<<"alice">>), List(<<Encoding("alice"), Encoding("carol")>>))}

EmptyGallery == [names |-> <<>>, encodings |-> <<>>]

\* load_encodings(), lines 74-91.
load_encodings(st) ==
    IF st.state # "dict" THEN EmptyGallery
    ELSE IF ~st.names.list \/ ~st.encodings.list THEN EmptyGallery
    ELSE LET min_len == Min(Len(st.names.items), Len(st.encodings.items))
         IN  [names |-> SubSeq(st.names.items, 1, min_len),
              encodings |-> SubSeq(st.encodings.items, 1, min_len)]

\* The gallery of the other specifications: alice, loaded from a sound
\* store; nobody enrolls.
GalleryOfAlice ==
    /\ store = StoreOf("dict", List(<<"alice">>), List(<<Encoding("alice")>>))
    /\ known_names = load_encodings(store).names
    /\ known_encodings = load_encodings(store).encodings
    /\ epc = "idle"
    /\ enrolling = ""
    /\ seen = [names |-> 0, encodings |-> 0]

\* No request has been made of /api/settings.
NoRequests ==
    /\ request = [method |-> "", body |-> <<>>, db_ok |-> TRUE]
    /\ response = None

\* No get is under way and no set has been made.
NoSettingsCalls ==
    /\ g_pc = "idle"
    /\ g_key = ""
    /\ g_default = None
    /\ g_cast = "str"
    /\ g_val = None
    /\ got = None
    /\ set_done = {}

\* The detector as FaceSystemThreaded.__init__ leaves it with DETECTOR_MODEL
\* 'dlib' stored (lines 39-40, 60-61), mediapipe being installed or not.
DlibChosen(installed) ==
    /\ detector_name = "dlib"
    /\ detector = "dlib"
    /\ detector_log = "dlib"
    /\ has_mediapipe = installed

Init ==
    /\ now = StartTick
    /\ settings_db \in
          {[k \in Keys |->
                CASE k = "SYSTEM_MODE" -> "auto"
                  [] k = "LATE_THRESHOLD" -> l
                  [] k = "DISAPPEAR_THRESHOLD" -> d
                  [] k = "RECHECK_INTERVAL" -> r
                  [] OTHER -> DEFAULTS[k]] :
             l \in LateValues, d \in DisappearValues, r \in RecheckValues}
    /\ cache = [k \in {} |-> ""]
    /\ class_schedules \in Timetables
    /\ students \in StudentStores
    /\ attendance_logs = <<>>
    /\ session_logged = {}
    /\ last_seen = EmptyMap
    /\ last_disappear_check = 0
    /\ current_schedule_key = None
    /\ schedule = <<>>
    /\ face = ""
    /\ pc = "schedule"
    /\ session_base = 0
    /\ Streaming
    /\ DlibChosen(FALSE)
    /\ SeededCameras
    /\ NoSettingsCalls
    /\ NoRequests
    /\ NoFrames
    /\ NoTrackers
    /\ NoOpening
    /\ NoSecondDetector
    /\ TimetableUp
    /\ GalleryOfAlice

Next ==
    \/ Tick
    \/ \E mode \in Modes : update_settings(mode)
    \/ AiSchedule
    \/ AiSweep
    \/ AiKnownFace
    \/ AiUnknownFace
    \/ AiPublish

Spec == Init /\ [][Next]_vars

\* The database becomes unreadable, or readable again.
DbToggle ==
    /\ timetable_ok' = ~timetable_ok
    /\ UNCHANGED <<attVars, streamVars, detVars, camVars, setVars, apiVars, frameVars,
                   local_cap, other, galVars, trkVars>>

\* The same program with settings that the settings page has stored as they
\* came (api.py, lines 1368-1397: only four keys are validated), numeric or
\* not.
Uncast == "abc"
InitCast ==
    /\ now = StartTick
    /\ settings_db \in
          {[k \in Keys |->
                CASE k = "SYSTEM_MODE" -> "auto"
                  [] k = "LATE_THRESHOLD" -> l
                  [] k = "DISAPPEAR_THRESHOLD" -> d
                  [] k = "RECHECK_INTERVAL" -> r
                  [] OTHER -> DEFAULTS[k]] :
             l \in LateValues \cup {Uncast}, d \in DisappearValues \cup {Uncast},
             r \in RecheckValues \cup {Uncast}}
    /\ cache = [k \in {} |-> ""]
    /\ class_schedules = Weekly
    /\ students = Names
    /\ attendance_logs = <<>>
    /\ session_logged = {}
    /\ last_seen = EmptyMap
    /\ last_disappear_check = 0
    /\ current_schedule_key = None
    /\ schedule = <<>>
    /\ face = ""
    /\ pc = "schedule"
    /\ session_base = 0
    /\ Streaming
    /\ DlibChosen(FALSE)
    /\ SeededCameras
    /\ NoSettingsCalls
    /\ NoRequests
    /\ NoFrames
    /\ NoTrackers
    /\ NoOpening
    /\ NoSecondDetector
    /\ TimetableUp
    /\ GalleryOfAlice

NextCast ==
    \/ Tick
    \/ \E mode \in Modes : update_settings(mode)
    \/ AiSchedule
    \/ AiSweep
    \/ AiSweepRaises
    \/ AiKnownFace
    \/ AiUnknownFace
    \/ AiPublish

SpecCast == InitCast /\ [][NextCast]_vars

\* What a step of enroll_student leaves alone.
EnrollRest ==
    /\ UNCHANGED <<now, settings_db, cache, class_schedules, attendance_logs,
                   session_logged, last_seen, last_disappear_check,
                   current_schedule_key, schedule, face, pc, session_base>>
    /\ UNCHANGED <<streamVars, detVars, camVars, setVars, apiVars, frameVars,
                   local_cap, other, timetable_ok, seen, trkVars>>

\* The names someone may enroll at run time.
Newcomers == {"bob"}

\* Whether the duplicate test of lines 448-462 answers 409: an embedding of
\* the store is the newcomer's own.
Duplicate(st, n) ==
    \E i \in 1 .. Len(st.encodings.items) : st.encodings.items[i] = Encoding(n)

\* enroll_student, lines 399-479, for a request with a name, an id, an
\* e-mail address and a picture of one face: the store is read, the pair is
\* appended to it and it is written back, and the student is inserted.  A
\* store that does not unpickle, or whose entries are not a dict of lists,
\* raises (500); a duplicate face without force, or a name the table has,
\* is answered 409, the latter with the store already written.
EnrollStore(n, force) ==
    /\ epc = "idle"
    /\ enrolling' = n
    /\ IF store.state = "missing"
       THEN /\ store' = StoreOf("dict", List(<<n>>), List(<<Encoding(n)>>))
            /\ students' = students \cup {n}
            /\ epc' = IF n \in students THEN "done"
                       ELSE IF is_running THEN "append_name" ELSE "done"
       ELSE IF store.state # "dict" \/ ~store.names.list \/ ~store.encodings.list
       THEN /\ epc' = "done"
            /\ UNCHANGED <<store, students>>
       ELSE IF Duplicate(store, n) /\ ~force
       THEN /\ epc' = "done"
            /\ UNCHANGED <<store, students>>
       ELSE /\ store' = StoreOf("dict", List(Append(store.names.items, n)),
                                List(Append(store.encodings.items, Encoding(n))))
            /\ students' = students \cup {n}
            /\ epc' = IF n \in students THEN "done"
                       ELSE IF is_running THEN "append_name" ELSE "done"
    /\ UNCHANGED <<known_names, known_encodings>>
    /\ EnrollRest

\* enroll_student, line 484: known_names.append(name).
EnrollName ==
    /\ epc = "append_name"
    /\ known_names' = Append(known_names, enrolling)
    /\ epc' = "append_encoding"
    /\ UNCHANGED <<known_encodings, store, enrolling, students>>
    /\ EnrollRest

\* enroll_student, lines 485-489: known_encodings.append(new_encoding), 201.
EnrollEncoding ==
    /\ epc = "append_encoding"
    /\ known_encodings' = Append(known_encodings, Encoding(enrolling))
    /\ epc' = "done"
    /\ UNCHANGED <<known_names, store, enrolling, students>>
    /\ EnrollRest

\* ai_loop, lines 260-280, for one face with the gallery as it is: the face
\* matches entry i of known_encodings (lines 262-269), or no entry (i = 0).
Recognize(i, fail) ==
    /\ pc = "faces"
    /\ seen' = [names |-> Len(known_names), encodings |-> Len(known_encodings)]
    /\ IF i = 0
       THEN /\ face' = Unknown
            /\ UNCHANGED <<cache, attendance_logs, session_logged, last_seen>>
       ELSE /\ face' = known_names[i]
            /\ log_attendance(known_names[i], fail)
    /\ UNCHANGED <<now, settings_db, class_schedules, students, last_disappear_check,
                   current_schedule_key, schedule, pc, session_base>>
    /\ UNCHANGED <<streamVars, detVars, camVars, setVars, apiVars, frameVars,
                   local_cap, other, timetable_ok, trkVars>>
    /\ UNCHANGED <<known_names, known_encodings, store, epc, enrolling>>

\* The same program with a database that comes and goes.
NextSink ==
    \/ Tick
    \/ \E mode \in Modes : update_settings(mode)
    \/ DbToggle
    \/ AiSchedule
    \/ AiSweep
    \/ AiKnownFace
    \/ AiUnknownFace
    \/ AiPublish

SpecSink == Init /\ [][NextSink]_vars

\* The same program with the clock at its full resolution, over a short time.
NextFine ==
    \/ TickFine
    \/ \E mode \in Modes : update_settings(mode)
    \/ AiSchedule
    \/ AiSweep
    \/ AiKnownFace
    \/ AiUnknownFace
    \/ AiPublish

SpecFine == Init /\ [][NextFine]_vars

\* The stored settings and tables of the pipeline specifications: the mode
\* given, the timetable Weekly, every gallery name a student.
Stored(mode) ==
    /\ now = StartTick
    /\ settings_db = [k \in Keys |->
                          CASE k = "SYSTEM_MODE" -> mode
                            [] k = "LATE_THRESHOLD" -> "0"
                            [] k = "DISAPPEAR_THRESHOLD" -> "1"
                            [] k = "RECHECK_INTERVAL" -> "1"
                            [] OTHER -> DEFAULTS[k]]
    /\ cache = [k \in {} |-> ""]
    /\ class_schedules = Weekly
    /\ students = Names
    /\ attendance_logs = <<>>
    /\ session_logged = {}
    /\ last_seen = EmptyMap
    /\ last_disappear_check = 0
    /\ current_schedule_key = None
    /\ schedule = <<>>
    /\ face = ""
    /\ session_base = 0

\* One run of the pipeline: start() has just been called on the constructed
\* pipeline, the camera may fail to open and reads may fail, stop() may be
\* called, and nothing is started again.  The clock stands still.
InitCamera ==
    /\ Stored("auto")
    /\ pc = "schedule"
    /\ is_running = TRUE
    /\ fs_is_running = TRUE
    /\ stop_event = FALSE
    /\ cap = None
    /\ opened = {}
    /\ started = 1
    /\ cpc = [t \in Threads |-> IF t = 1 THEN "open_top" ELSE "idle"]
    /\ backoff = [t \in Threads |-> 1]
    /\ attempt = [t \in Threads |-> 0]
    /\ waited = [t \in Threads |-> 0]
    /\ consecutive_failures = [t \in Threads |-> 0]
    /\ latest_frame = None
    /\ old_ai_same = 0
    /\ old_ai_orphan = 0
    /\ ctl = "idle"
    /\ DlibChosen(FALSE)
    /\ SeededCameras
    /\ NoSettingsCalls
    /\ NoRequests
    /\ NoFrames
    /\ NoTrackers
    /\ NoOpening
    /\ NoSecondDetector
    /\ TimetableUp
    /\ GalleryOfAlice

NextCamera ==
    \/ stop
    \/ \E t \in Threads : capture_loop(t)
    \/ AiSchedule
    \/ AiSweep
    \/ AiKnownFace
    \/ AiUnknownFace
    \/ AiPublish
    \/ AiExit

SpecCamera == InitCamera /\ [][NextCamera]_vars

\* One step of the detection thread.
ai_loop ==
    \/ AiSchedule
    \/ AiSweep
    \/ AiKnownFace
    \/ AiUnknownFace
    \/ AiExit

\* The same run with the threads scheduled: a stop() that has set the flags
\* goes on to its end, a capture thread that can take a step takes one,
\* and so does the detection thread, which also gets to the end of the faces
\* of a frame.
FairCamera ==
    /\ SpecCamera
    /\ WF_vars(ctl # "idle" /\ stop)
    /\ \A t \in Threads : WF_vars(capture_loop(t))
    /\ WF_vars(ai_loop)
    /\ WF_vars(AiPublish)

\* The capture threads with a camera that opens and reads without fail.
capture_loop_healthy(t) ==
    \/ OpenTop(t)
    \/ OpenSucceeds(t)
    \/ CaptureTop(t)
    \/ ReadSucceeds(t)

\* The capture threads with a camera that opens and reads without fail,
\* the opening of the camera in its two steps.
capture_loop_opening(t) ==
    \/ OpenTop(t)
    \/ OpenHandle(t)
    \/ OpenAssign(t)
    \/ CaptureTop(t)
    \/ ReadSucceeds(t)

\* The pipeline from its construction: start, stop and restart calls from
\* the web UI (one at a time), the capture threads on a healthy camera and
\* the detection threads, with the mode force_on stored and the clock
\* standing still.
InitStream ==
    /\ Stored("force_on")
    /\ pc = "idle"
    /\ Constructed
    /\ DlibChosen(FALSE)
    /\ SeededCameras
    /\ NoSettingsCalls
    /\ NoRequests
    /\ NoFrames
    /\ NoTrackers
    /\ NoOpening
    /\ NoSecondDetector
    /\ TimetableUp
    /\ GalleryOfAlice

NextStream ==
    \/ start
    \/ stop
    \/ restart_stop
    \/ restart_start
    \/ \E t \in Threads : capture_loop_healthy(t)
    \/ AiSchedule
    \/ AiSweep
    \/ AiKnownFace
    \/ AiUnknownFace
    \/ AiPublish
    \/ AiExit
    \/ AiCrash
    \/ OldAiExit

SpecStream == InitStream /\ [][NextStream]_vars

\* The running pipeline with the detector model set from the settings page,
\* mediapipe being installed or not; the clock stands still.
InitDetector ==
    /\ Stored("auto")
    /\ pc = "schedule"
    /\ Streaming
    /\ \E installed \in BOOLEAN : DlibChosen(installed)
    /\ SeededCameras
    /\ NoSettingsCalls
    /\ NoRequests
    /\ NoFrames
    /\ NoTrackers
    /\ NoOpening
    /\ NoSecondDetector
    /\ TimetableUp
    /\ GalleryOfAlice

NextDetector ==
    \/ \E model \in Detectors : update_detector_model(model)
    \/ AiSchedule
    \/ AiSweep
    \/ AiKnownFace
    \/ AiUnknownFace
    \/ AiPublish

SpecDetector == InitDetector /\ [][NextDetector]_vars

\* The keys and values of the settings calls, and the caller's defaults.
CallKeys == {"TOLERANCE", "DETECTOR_MODEL"}
CallValues(key) == IF key = "TOLERANCE" THEN {"0.45", "1.0"} ELSE {"mediapipe"}
CallDefaults == {None, Some("0.1")}

\* The settings store with a caller of get and callers of set, each in its
\* own thread; the settings table is seeded, or lacks the rows of CallKeys.
InitSettings ==
    /\ now = StartTick
    /\ settings_db \in {[k \in Keys |-> DEFAULTS[k]],
                        [k \in Keys \ CallKeys |-> DEFAULTS[k]]}
    /\ cache = [k \in {} |-> ""]
    /\ class_schedules = Weekly
    /\ students = Names
    /\ attendance_logs = <<>>
    /\ session_logged = {}
    /\ last_seen = EmptyMap
    /\ last_disappear_check = 0
    /\ current_schedule_key = None
    /\ schedule = <<>>
    /\ face = ""
    /\ session_base = 0
    /\ pc = "idle"
    /\ Constructed
    /\ DlibChosen(FALSE)
    /\ SeededCameras
    /\ NoSettingsCalls
    /\ NoRequests
    /\ NoFrames
    /\ NoTrackers
    /\ NoOpening
    /\ NoSecondDetector
    /\ TimetableUp
    /\ GalleryOfAlice

NextSettings ==
    \/ \E key \in CallKeys, default \in CallDefaults, cast \in {"str", "float"} :
          get_begin(key, default, cast)
    \/ get_fill
    \/ \E key \in CallKeys, ok \in BOOLEAN : \E value \in CallValues(key) :
          settings_set(key, value, ok)

SpecSettings == InitSettings /\ [][NextSettings]_vars

\* The items a request body is made of, and the bodies.
MaxBody == 2
Items ==
    {<<"DETECTOR_MODEL", JStr("mediapipe")>>, <<"detector_model", JStr("dlib")>>,
     <<"DETECTOR_MODEL", JStr("invalid_model")>>,
     <<"TOLERANCE", JNum(45)>>, <<"tolerance", JNum(500)>>,
     <<"TOLERANCE", JStr("not_a_number")>>, <<"TOLERANCE", JTrue>>,
     <<"TOLERANCE", JNull>>,
     <<"SYSTEM_MODE", JStr("force_on")>>, <<"system_mode", JStr("bogus")>>,
     <<"UNKNOWN", JStr("x")>>}
Bodies ==
    {b \in UNION {[1..n -> Items] : n \in 0..MaxBody} :
        \A i, j \in DOMAIN b : i # j => b[i][1] # b[j][1]}

\* The settings page: requests one after the other on a seeded table.
InitApi ==
    /\ now = StartTick
    /\ settings_db = [k \in Keys |-> DEFAULTS[k]]
    /\ cache = [k \in {} |-> ""]
    /\ class_schedules = Weekly
    /\ students = Names
    /\ attendance_logs = <<>>
    /\ session_logged = {}
    /\ last_seen = EmptyMap
    /\ last_disappear_check = 0
    /\ current_schedule_key = None
    /\ schedule = <<>>
    /\ face = ""
    /\ session_base = 0
    /\ pc = "idle"
    /\ Constructed
    /\ DlibChosen(FALSE)
    /\ SeededCameras
    /\ NoSettingsCalls
    /\ NoRequests
    /\ NoFrames
    /\ NoTrackers
    /\ NoOpening
    /\ NoSecondDetector
    /\ TimetableUp
    /\ GalleryOfAlice

NextApi ==
    \/ \E fails \in BOOLEAN : get_settings(fails)
    \/ \E body \in Bodies, ok \in BOOLEAN : update_settings_post(body, ok)

SpecApi == InitApi /\ [][NextApi]_vars

\* The pipeline as start(), stop(), start() leave it when the detection
\* thread of the first start() had not reached line 224 before the second:
\* two capture threads and two detection threads run, both detection threads
\* at the top of their loop, a frame is there.
StartedTwice ==
    /\ is_running = TRUE
    /\ fs_is_running = TRUE
    /\ stop_event = FALSE
    /\ cap = Some(2)
    /\ opened = {2}
    /\ started = 2
    /\ cpc = [t \in Threads |-> "loop"]
    /\ backoff = [t \in Threads |-> 1]
    /\ attempt = [t \in Threads |-> 1]
    /\ waited = [t \in Threads |-> 0]
    /\ consecutive_failures = [t \in Threads |-> 0]
    /\ latest_frame = Some(Frame)
    /\ old_ai_same = 1
    /\ old_ai_orphan = 0
    /\ ctl = "idle"

InitPair ==
    /\ TimetableUp
    /\ GalleryOfAlice
    /\ Stored("force_on")
    /\ pc = "schedule"
    /\ StartedTwice
    /\ DlibChosen(FALSE)
    /\ SeededCameras
    /\ NoSettingsCalls
    /\ NoRequests
    /\ NoFrames
    /\ NoTrackers
    /\ NoOpening
    /\ other = [pc |-> "schedule", schedule |-> <<>>, face |-> ""]

\* Two detection threads on one face_system, the mode set from the settings
\* page; the clock stands still.
NextPair ==
    \/ \E mode \in Modes : update_settings(mode)
    \/ AiSchedule
    \/ AiSweep
    \/ AiKnownFace
    \/ AiUnknownFace
    \/ AiPublish
    \/ \E n \in Names : DedupTest(n)
    \/ DedupSet
    \/ Switch

SpecPair == InitPair /\ [][NextPair]_vars

\* The running pipeline with a gallery loaded from whatever store there is,
\* and somebody enrolling; the clock stands still.
InitGallery ==
    /\ Stored("force_on")
    /\ pc = "schedule"
    /\ Streaming
    /\ DlibChosen(FALSE)
    /\ SeededCameras
    /\ NoSettingsCalls
    /\ NoRequests
    /\ NoFrames
    /\ NoTrackers
    /\ NoOpening
    /\ NoSecondDetector
    /\ TimetableUp
    /\ store \in Stores
    /\ known_names = load_encodings(store).names
    /\ known_encodings = load_encodings(store).encodings
    /\ epc = "idle"
    /\ enrolling = ""
    /\ seen = [names |-> 0, encodings |-> 0]

NextGallery ==
    \/ \E n \in Newcomers, force \in BOOLEAN : EnrollStore(n, force)
    \/ EnrollName
    \/ EnrollEncoding
    \/ AiSchedule
    \/ AiSweep
    \/ \E i \in 0 .. Len(known_encodings), fail \in {"none", "connect", "insert"} :
           Recognize(i, fail)
    \/ AiPublish

SpecGallery == InitGallery /\ [][NextGallery]_vars

\* The pipeline from its construction as in SpecStream, the opening of the
\* camera in its two steps.
NextHandles ==
    \/ start
    \/ stop
    \/ restart_stop
    \/ restart_start
    \/ \E t \in Threads : capture_loop_opening(t)
    \/ AiSchedule
    \/ AiSweep
    \/ AiKnownFace
    \/ AiUnknownFace
    \/ AiPublish
    \/ AiExit
    \/ OldAiExit

SpecHandles == InitStream /\ [][NextHandles]_vars

\* One run of the pipeline frame by frame: the camera is open and no frame
\* has been read yet, the mode force_off is stored, and stop() may be
\* called.
InitFrames ==
    /\ Stored("force_off")
    /\ pc = "schedule"
    /\ is_running = TRUE
    /\ fs_is_running = TRUE
    /\ stop_event = FALSE
    /\ cap = Some(1)
    /\ opened = {1}
    /\ started = 1
    /\ cpc = [t \in Threads |-> IF t = 1 THEN "loop" ELSE "idle"]
    /\ backoff = [t \in Threads |-> 1]
    /\ attempt = [t \in Threads |-> 1]
    /\ waited = [t \in Threads |-> 0]
    /\ consecutive_failures = [t \in Threads |-> 0]
    /\ latest_frame = None
    /\ old_ai_same = 0
    /\ old_ai_orphan = 0
    /\ ctl = "idle"
    /\ DlibChosen(TRUE)
    /\ SeededCameras
    /\ NoSettingsCalls
    /\ NoRequests
    /\ NoFrames
    /\ NoTrackers
    /\ NoOpening
    /\ NoSecondDetector
    /\ TimetableUp
    /\ GalleryOfAlice

\* The capture loop and the detection loop, with no consumer of the stream.
NextFrames ==
    \/ stop
    \/ \E t \in Threads : capture_frames(t)
    \/ ai_frames

SpecFrames == InitFrames /\ [][NextFrames]_vars

\* The capture loop and the detection loop with the trackers, on frames that
\* show several faces.
NextTrackers ==
    \/ stop
    \/ \E t \in Threads : capture_trackers(t)
    \/ ai_trackers

SpecTrackers == InitFrames /\ [][NextTrackers]_vars

\* The pipeline as SpecTrackers has it after a first detection cycle on a
\* frame with two faces and a capture iteration that has tracked and shown
\* them: the capture thread is at the top of its loop, the detection thread
\* sleeps at the end of its cycle (line 300).
InitTracked ==
    /\ now = StartTick
    /\ settings_db = [k \in Keys |->
                          CASE k = "SYSTEM_MODE" -> "force_off"
                            [] k = "LATE_THRESHOLD" -> "0"
                            [] k = "DISAPPEAR_THRESHOLD" -> "1"
                            [] k = "RECHECK_INTERVAL" -> "1"
                            [] OTHER -> DEFAULTS[k]]
    /\ cache = [k \in {"SYSTEM_MODE", "DISAPPEAR_THRESHOLD", "RECHECK_INTERVAL",
                        "DETECTOR_MODEL"} |-> settings_db[k]]
    /\ class_schedules = Weekly
    /\ students = Names
    /\ attendance_logs = <<>>
    /\ session_logged = {}
    /\ last_seen = EmptyMap
    /\ last_disappear_check = now
    /\ current_schedule_key = None
    /\ schedule = Some(None)
    /\ face = ""
    /\ session_base = 0
    /\ pc = "schedule"
    /\ is_running = TRUE
    /\ fs_is_running = TRUE
    /\ stop_event = FALSE
    /\ cap = Some(1)
    /\ opened = {1}
    /\ started = 1
    /\ cpc = [t \in Threads |-> IF t = 1 THEN "loop" ELSE "idle"]
    /\ backoff = [t \in Threads |-> 1]
    /\ attempt = [t \in Threads |-> 1]
    /\ waited = [t \in Threads |-> 0]
    /\ consecutive_failures = [t \in Threads |-> 0]
    /\ latest_frame = Some(2)
    /\ old_ai_same = 0
    /\ old_ai_orphan = 0
    /\ ctl = "idle"
    /\ DlibChosen(TRUE)
    /\ SeededCameras
    /\ NoSettingsCalls
    /\ NoRequests
    /\ lock = None
    /\ stream_lock = None
    /\ heap = [o \in Objects |->
                  IF o = 2 THEN [Flipped(2) EXCEPT !.marks = {"box1", "box2", "status"}]
                  ELSE Blank]
    /\ camera_image = 1
    /\ frame = [t \in Threads |-> IF t = 1 THEN 2 ELSE 0]
    /\ current_names = [t \in Threads |-> IF t = 1 THEN <<"alice", Unknown>> ELSE <<>>]
    /\ tracking_names = <<"alice", Unknown>>
    /\ detected_results = <<"alice", Unknown>>
    /\ new_results_available = TRUE
    /\ frame_to_process = None
    /\ output_frame = Some(heap[2])
    /\ gpc = "idle"
    /\ gen_frame = None
    /\ yielded = None
    /\ published_frames = {}
    /\ polled_empty = FALSE
    /\ trackers = <<Tracker(1, 1, "alice", 2), Tracker(1, 2, Unknown, 2)>>
    /\ current_trackers = [t \in Threads |-> IF t = 1 THEN trackers ELSE <<>>]
    /\ results = <<>>
    /\ new_trackers = <<>>
    /\ cycle = 1
    /\ raised = [t \in Threads |-> {}]
    /\ NoOpening
    /\ NoSecondDetector
    /\ TimetableUp
    /\ GalleryOfAlice

\* The capture loop with its trackers and a camera whose reads and opens may
\* fail, while the detection thread sleeps; stop() may be called.
NextFailing ==
    \/ stop
    \/ \E t \in Threads : capture_trackers(t)
    \/ \E t \in Threads : ReadFails(t)
    \/ \E t \in Threads : OpenTop(t)
    \/ \E t \in Threads : OpenSucceeds(t)
    \/ \E t \in Threads : OpenFails(t)
    \/ \E t \in Threads : OpenWaitSecond(t)
    \/ \E t \in Threads : OpenWaitEnds(t)

SpecFailing == InitTracked /\ [][NextFailing]_vars

\* The capture loop and a consumer of the stream that may connect at any
\* time, before the detection loop has published a tracker.
NextConsumer ==
    \/ stop
    \/ \E t \in Threads : capture_frames(t)
    \/ GenStart
    \/ generate_frames

SpecConsumer == InitFrames /\ [][NextConsumer]_vars

\* The same run with the threads scheduled: a stop() that has set the flags
\* goes on to its end, a capture thread that can take a step takes one, and
\* the generator is driven by a consumer that keeps asking for parts.
FairConsumer ==
    /\ SpecConsumer
    /\ WF_vars(ctl # "idle" /\ stop)
    /\ \A t \in Threads : WF_vars(capture_frames(t))
    /\ WF_vars(generate_frames)

\* The camera registry under the cameras API, and the lookups of the open
\* routine; the pipeline stands as constructed.
InitRegistry ==
    /\ Stored("auto")
    /\ pc = "idle"
    /\ Constructed
    /\ DlibChosen(FALSE)
    /\ SeededCameras
    /\ NoSettingsCalls
    /\ NoRequests
    /\ NoFrames
    /\ NoTrackers
    /\ NoOpening
    /\ NoSecondDetector
    /\ TimetableUp
    /\ GalleryOfAlice

NextRegistry ==
    \/ resolve_camera
    \/ add_camera
    \/ update_camera
    \/ delete_camera

SpecRegistry == InitRegistry /\ [][NextRegistry]_vars

\* -------------------------------------------------------------- properties
\* The statuses log_attendance writes.
SightingStatuses == {"On Time", "Late", "Present"}

\* The rows written since the session was last reset: the rows of the slot
\* as the session knows it.
SessionRows == (session_base + 1) .. Len(attendance_logs)

\* The rows a step appends.
NewRows == (Len(attendance_logs) + 1) .. Len(attendance_logs')

\* The schedule a call made in the current state resolves (an optional).
Active == get_active_schedule(cache)

\* schedule_id as log_attendance is to store it for the schedule with this id.
StoredId(id) == IF id = ForceOnId THEN None ELSE Some(id)

C2_SightingLogsOnce ==
    [][\A n \in Names :
          (/\ KnownFace(n, "none")
           /\ Active # None
           /\ n \in students
           /\ HasRoom(attendance_logs)
           /\ [name |-> n, kind |-> "sched", sid |-> Active[1].id] \notin session_logged)
          => (/\ Len(attendance_logs') = Len(attendance_logs) + 1
              /\ SubSeq(attendance_logs', 1, Len(attendance_logs)) = attendance_logs
              /\ attendance_logs'[Len(attendance_logs')].student = n
              /\ attendance_logs'[Len(attendance_logs')].status \in SightingStatuses
              /\ attendance_logs'[Len(attendance_logs')].schedule_id = StoredId(Active[1].id)
              /\ session_logged' = session_logged
                     \cup {[name |-> n, kind |-> "sched", sid |-> Active[1].id]}
              /\ n \in DOMAIN last_seen'
              /\ last_seen'[n] = now
              /\ \A m \in DOMAIN last_seen \ {n} :
                     m \in DOMAIN last_seen' /\ last_seen'[m] = last_seen[m])]_vars

\* C2's case: alice has just been logged for timetable entry 1 and for the
\* synthetic schedule, each time with one record, its key and last_seen.
C2_Witness ==
    /\ pc = "faces"
    /\ face = "alice"
    /\ Len(attendance_logs) = session_base + 1
    /\ attendance_logs[Len(attendance_logs)].student = "alice"
    /\ attendance_logs[Len(attendance_logs)].schedule_id = None
    /\ attendance_logs[Len(attendance_logs)].status = "Present"
    /\ \E i \in 1 .. session_base : attendance_logs[i].schedule_id = Some(1)
    /\ session_logged = {[name |-> "alice", kind |-> "sched", sid |-> ForceOnId]}
    /\ "alice" \in DOMAIN last_seen
    /\ last_seen["alice"] = now

\* C3: a record for schedule S is appended, and a key for S added, only
\* while the session's stored fingerprint is that of S: the session has been
\* reset for S before any sighting is processed against S.
C3_ResetBeforeSighting ==
    [][((\E i \in NewRows : attendance_logs'[i].status \in SightingStatuses)
          \/ (\E k \in session_logged' \ session_logged : k.kind = "sched"))
       => (/\ Active # None
           /\ current_schedule_key = Some(Fingerprint(Active[1])))]_vars

\* C4: when the schedule a detection cycle resolves is None and the one the
\* cycle before resolved was not, or the other way round, the cycle leaves
\* session_logged and last_seen empty.
C4_NoneIsATransition ==
    [][(/\ pc = "schedule"
        /\ pc' = "sweep"
        /\ schedule # <<>>
        /\ (schedule[1] = None) # (schedule'[1] = None))
       => (session_logged' = {} /\ DOMAIN last_seen' = {})]_vars

\* When today's occurrence of timetable entry s began.
OccurrenceStart(s) == Midnight(now) + s.start_time.m * TicksPerMin

\* C5: the session does not outlive one occurrence of a timetable entry.
\* The first sighting of a student in an occurrence (no sighting of the
\* student is remembered from it) adds a record, and a Disappeared record
\* rests on a last_seen reading taken within the occurrence.
C5_SessionEndsWithSlot ==
    [][/\ \A n \in Names :
            (/\ KnownFace(n, "none")
             /\ Active # None
             /\ Active[1].id # ForceOnId
             /\ n \in students
             /\ HasRoom(attendance_logs)
             /\ (n \in DOMAIN last_seen => last_seen[n] < OccurrenceStart(Active[1])))
            => Len(attendance_logs') = Len(attendance_logs) + 1
       /\ \A i \in NewRows :
            (/\ attendance_logs'[i].status = "Disappeared"
             /\ Active # None
             /\ Active[1].id # ForceOnId)
            => last_seen[attendance_logs'[i].student] >= OccurrenceStart(Active[1])]_vars

\* The LATE_THRESHOLD, in ticks, that a call made in the current state reads.
LateTicks == GetInt(cache, "LATE_THRESHOLD").i * TicksPerMin

\* C6: for a timetable entry whose start_time parses, a record written at
\* clock reading now is "On Time" exactly when now <= (today at start_time)
\* + LATE_THRESHOLD minutes, and "Late" otherwise.
C6_OnTimeUntilThreshold ==
    [][\A i \in NewRows :
          (/\ attendance_logs'[i].status \in SightingStatuses
           /\ Active # None
           /\ Active[1].id # ForceOnId
           /\ Active[1].start_time.ok
           /\ GetInt(cache, "LATE_THRESHOLD").int)
          => attendance_logs'[i].status =
                 IF now <= OccurrenceStart(Active[1]) + LateTicks
                 THEN "On Time" ELSE "Late"]_vars

\* C7: a record written while the active schedule is the synthetic one, or
\* one whose start_time does not parse, has status "Present", whatever the
\* time of day.
C7_PresentWithoutStartTime ==
    [][\A i \in NewRows :
          (/\ pc = "faces"
           /\ Active # None
           /\ (Active[1].id = ForceOnId \/ ~Active[1].start_time.ok))
          => attendance_logs'[i].status = "Present"]_vars

\* C7's case: the log holds a Present record written under the synthetic
\* schedule and one written under timetable entry 2, whose start_time does
\* not parse, at different minutes of the day.
C7_Witness ==
    /\ \E r \in class_schedules : r.id = 2 /\ ~r.start_time.ok
    /\ \E i, j \in 1 .. Len(attendance_logs) :
          /\ attendance_logs[i].status = "Present"
          /\ attendance_logs[i].schedule_id = None
          /\ attendance_logs[j].status = "Present"
          /\ attendance_logs[j].schedule_id = Some(2)
    /\ MinuteOf(now) # 1

\* RECHECK_INTERVAL (seconds) and DISAPPEAR_THRESHOLD (minutes), in ticks, as
\* a call made in the current state reads them.
RecheckTicks == GetInt(cache, "RECHECK_INTERVAL").i * SubPerSec
DisappearTicks == GetInt(cache, "DISAPPEAR_THRESHOLD").i * SecPerMin * SubPerSec

C9_UnknownLeavesNoTrace ==
    [][(pc = "faces" /\ face' = Unknown)
       => UNCHANGED <<attendance_logs, session_logged, last_seen>>]_vars

\* C9's case: with a schedule active and alice in the student store, an
\* Unknown face has been processed and the session is still empty.
C9_Witness ==
    /\ pc = "faces"
    /\ face = Unknown
    /\ Active # None
    /\ students = Names
    /\ attendance_logs = <<>>
    /\ session_logged = {}
    /\ DOMAIN last_seen = {}

Mode == GetStr(cache, "SYSTEM_MODE", Some("auto"))

\* C11: while the mode is force_off no step, sighting or sweep, adds a row of
\* any status to attendance_logs.
C11_ForceOffLogsNothing ==
    [][Mode = "force_off" => attendance_logs' = attendance_logs]_vars

\* C11's case: alice was logged before the mode became force_off; now, more
\* than the disappearance threshold later, the mode is force_off, a sweep
\* has just run and alice has just been sighted: her one row is all there is.
C11_Witness ==
    /\ Mode = "force_off"
    /\ pc = "faces"
    /\ face = "alice"
    /\ last_disappear_check = now
    /\ "alice" \in DOMAIN last_seen
    /\ now - last_seen["alice"] > DisappearTicks
    /\ Len(attendance_logs) = 1
    /\ attendance_logs[1].status \in SightingStatuses

C16_ModeOverridesTimetable ==
    /\ Mode = "force_off" => Active = None
    /\ Mode = "force_on" => (Active # None /\ Active[1].id = ForceOnId)

\* C16's case: the mode is force_on at a time when an entry of the timetable
\* matches, and the resolver returns the synthetic schedule.
C16_Witness ==
    /\ Mode = "force_on"
    /\ MatchingRows(now) # {}
    /\ Active = Some(ManualSchedule)
    /\ schedule = Some(Some(ManualSchedule))

\* C17: in auto mode the resolver returns an entry only if it is of today,
\* switched on, and start_time <= now < end_time (at now = end_time it is
\* over); of several such entries it returns the one with the earliest
\* start_time, and None when there is none.
C17_HalfOpenInterval ==
    Mode = "auto" =>
        LET live == {r \in class_schedules :
                        /\ r.day_of_week = DayOf(now)
                        /\ r.is_active
                        /\ StrLE(r.start_time, StrfHM(now))
                        /\ StrLE(StrfHM(now), r.end_time)
                        /\ StrfHM(now) # r.end_time}
        IN  /\ live = {} => Active = None
            /\ live # {} =>
                   (/\ Active # None
                    /\ Active[1] \in live
                    /\ \A r \in live : StrLE(Active[1].start_time, r.start_time))

\* The delay the retry policy prescribes after the k-th failed attempt of one
\* open call: 1, 2, 4, 8, 10, 10, ... seconds.
Delay(k) == IF k <= 4 THEN <<1, 2, 4, 8>>[k] ELSE 10

\* A wait of thread t that ends in this step by running out.
WaitRanOut(t) == cpc[t] = "open_wait" /\ cpc'[t] = "open_top" /\ ~stop_event

\* C13: within one call of the camera open routine the wait after the k-th
\* failed attempt lasts 1, 2, 4, 8, 10, 10, ... seconds (never above 10), and
\* since the attempts are counted from 1 again in every call, every open
\* sequence, the initial one and each reconnect, starts again at 1 second.
C13_BackoffSequence ==
    [][\A t \in Threads : WaitRanOut(t) => waited[t] = Delay(attempt[t])]_vars

\* A reconnect (a frame was read before) is waiting out the 10 seconds that
\* follow its sixth failed attempt.
C13_Witness ==
    /\ latest_frame # None
    /\ cpc[1] = "open_wait"
    /\ attempt[1] = 6
    /\ waited[1] = 10
    /\ ~stop_event

\* Thread t takes a step of the open routine from position p.
OpenStepFrom(t, p) == cpc[t] = p /\ cpc'[t] # p

\* C14: the camera open routine keeps retrying while opening fails and the
\* stop signal is not set (from the top of its loop it makes the next
\* attempt, a failed attempt leads to the wait and the wait back to the top);
\* it returns without a handle only if the stop signal is set; and with the
\* stop signal set during the wait, no further second is waited and the next
\* test at the top returns without another attempt.
C14_RetryUntilStopped ==
    [][\A t \in Threads :
          /\ OpenStepFrom(t, "open_top") /\ ~stop_event
                => cpc'[t] = "open_try" /\ attempt'[t] = attempt[t] + 1
          /\ OpenStepFrom(t, "open_try") => cpc'[t] \in {"open_wait", "loop"}
          /\ OpenStepFrom(t, "open_wait") => cpc'[t] = "open_top"
          /\ OpenStepFrom(t, "open_top") /\ cpc'[t] = "done" => stop_event
          /\ cpc[t] = "open_wait" /\ stop_event => waited'[t] = waited[t]
          /\ OpenStepFrom(t, "open_top") /\ stop_event
                => /\ cpc'[t] = "done"
                   /\ attempt'[t] = attempt[t]
                   /\ cap' = None
                   /\ opened' \subseteq opened]_vars

\* stop() has set the signal while a thread is three seconds into a wait of
\* eight.
C14_Witness ==
    /\ stop_event
    /\ cpc[1] = "open_wait"
    /\ backoff[1] = 8
    /\ waited[1] = 3

\* Thread t, reading, goes into a forced reconnect in this step.
Reconnects(t) == OpenStepFrom(t, "read") /\ cpc'[t] = "open_top"

\* C15: in the capture loop a forced reconnect happens exactly when the
\* count of consecutive failed reads reaches 30 (the handle is released, the
\* open routine starts anew); a successful read and a successful reconnect
\* reset the count to 0; and a failed read never ends the capture loop.
C15_ReconnectAtThirty ==
    [][\A t \in Threads :
          /\ Reconnects(t)
                => /\ consecutive_failures[t] = 29
                   /\ consecutive_failures'[t] = 30
                   /\ CapHandles \cap opened' = {}
                   /\ backoff'[t] = 1
                   /\ attempt'[t] = 0
          /\ OpenStepFrom(t, "read") /\ consecutive_failures'[t] = 30 => Reconnects(t)
          /\ OpenStepFrom(t, "read") /\ ~Reconnects(t)
                => /\ cpc'[t] = "loop"
                   /\ consecutive_failures'[t] \in {0, consecutive_failures[t] + 1}
                   /\ consecutive_failures'[t] < 30
          /\ ReadSucceeds(t) => consecutive_failures'[t] = 0 /\ cpc'[t] = "loop"
          /\ OpenStepFrom(t, "open_try") /\ cpc'[t] = "loop"
                => consecutive_failures'[t] = 0]_vars

\* After a frame was read, thirty reads in a row have failed: the handle is
\* released and the open routine has just been entered.
C15_Witness ==
    /\ latest_frame # None
    /\ cpc[1] = "open_top"
    /\ attempt[1] = 0
    /\ consecutive_failures[1] = 30
    /\ opened = {}
    /\ ~stop_event

\* Both loops of the run have exited and no camera handle is open.
AllDown ==
    /\ \A t \in Threads : cpc[t] \in {"idle", "done"}
    /\ pc = "done"
    /\ cap = None
    /\ opened = {}

\* C18: after stop() on a running pipeline, with nothing started again, the
\* capture loop that reaches the top of an iteration exits there, the
\* detection loop that reaches the top of an iteration exits there, and in
\* the end both loops are over and no camera handle is open, for good;
\* also when stop() came while the camera was being opened or reconnected.
C18_StopEndsBothLoops ==
    /\ [][/\ \A t \in Threads : OpenStepFrom(t, "loop") /\ stop_event => cpc'[t] = "done"
          /\ pc = "schedule" /\ pc' # pc /\ ~fs_is_running => pc' = "done"]_vars
    /\ (stop_event ~> [] AllDown)

\* stop() has returned after it caught the capture thread in a reconnect
\* (thirty failed reads after a frame): both loops are over, nothing is open.
C18_Witness ==
    /\ stop_event
    /\ ctl = "idle"
    /\ latest_frame # None
    /\ consecutive_failures[1] = 30
    /\ AllDown

\* restart() returns in this step.
RestartReturns == ctl = "restart_sleep" /\ ctl' = "idle"

\* C19: when restart() returns, the pipeline is running on a new recognition
\* state (empty dedup set, empty LastSeen, empty latest-frame slot), and the
\* worker loops of the previous run have stopped: no capture thread but the
\* new one is alive, and no detection thread but the new one.
C19_RestartFreshRun ==
    [][RestartReturns =>
          /\ is_running' /\ fs_is_running'
          /\ session_logged' = {}
          /\ last_seen' = EmptyMap
          /\ latest_frame' = None
          /\ \A t \in Threads \ {started'} : cpc'[t] \in {"idle", "done"}
          /\ old_ai_same' = 0
          /\ old_ai_orphan' = 0]_vars

\* Both worker loops of the latest start() are alive.
BothAlive ==
    /\ started > 0
    /\ cpc[started] \notin {"idle", "done"}
    /\ AiAlive

\* C20: the running flag that status() returns is true only while both
\* worker loops are alive; in particular it is not true after the detection
\* loop has ended in a crash.  (That the flag is false only while no loop is
\* alive is left out here: stop() returns before the loops have ended.)
C20_StatusIsTrueState == ai_running => BothAlive

\* The enabled entries of the registry.
Enabled == {r \in cameras : r.is_active = 1}

SelectsFaster ==
    /\ pc = "schedule"
    /\ pc' # pc
    /\ GetStr(cache, "DETECTOR_MODEL", Some("dlib")) = "mediapipe"
    /\ detector_name # "mediapipe"

\* C22: when the selection of the faster detector fails, because mediapipe
\* is not available or because its construction raises (the fallback is
\* logged), the cycle goes on with the slower detector installed; the faster
\* one is installed only when it is available and was constructed; the
\* selection never ends the detection loop.
C22_FallbackToDlib ==
    [][SelectsFaster =>
          /\ pc' = "sweep"
          /\ detector_name' = "mediapipe"
          /\ detector' \in Detectors
          /\ ~has_mediapipe \/ detector_log' = "fallback" => detector' = "dlib"
          /\ detector' = "mediapipe" => has_mediapipe /\ detector_log' = "mediapipe"]_vars

\* The construction of the faster detector has raised: the cycle goes on
\* with dlib installed under the name mediapipe.
C22_Witness ==
    /\ has_mediapipe
    /\ detector_name = "mediapipe"
    /\ detector = "dlib"
    /\ detector_log = "fallback"
    /\ pc = "sweep"

\* C21: a detection loop that an escaping exception has ended is reported
\* stopped (while the latest start() is the one whose loop it was, status()
\* does not say running).  The other parts of the claim, that the exception
\* does not leave the thread, that the capture loop keeps running and that
\* stop() and start() still work afterwards, are how AiCrash, stop and start
\* are written.
C21_FatalErrorReported == pc = "crashed" => ~ai_running

\* What a get(key) made in the current state returns, as a string.
GetNow(key) ==
    FinalOf(IF key \in DOMAIN cache THEN cache[key] ELSE FetchFromDb(key), key, None)

\* C23: once set(key, value) has returned True, a get(key) that is made
\* afterwards (none being under way) returns the value of the last such set,
\* which is the value in the row of the key: no stale cached value is seen.
C23_SetThenGet ==
    \A key \in set_done : g_pc = "idle" => GetNow(key) = settings_db[key]

\* A get that missed the cache returns in this step.
MissReturns == g_pc = "fetched" /\ g_pc' = "idle"

\* C24: a get of a recognized key that has no stored value (and nothing
\* cached) returns the caller's default when one is given and the class
\* default otherwise, cast with type_cast: with no default given,
\* DETECTOR_MODEL gives 'dlib' and TOLERANCE with float gives 0.5.
C24_DefaultPrecedence ==
    [][MissReturns /\ g_key \notin DOMAIN settings_db =>
          got'[1] = Returned(IF g_default # None THEN g_default[1] ELSE DEFAULTS[g_key],
                             g_key, g_default, g_cast)]_vars

\* The items the settings page is to take and to refuse: a detector model
\* or a system mode outside its list, a tolerance or detection scale that is
\* not a number or lies outside [0.1, 1.0].
Numeric(v) == v.kind = "num" \/ (v.kind = "str" /\ v.s \in FloatStrings)
InvalidItem(key, val) ==
    \/ key = "DETECTOR_MODEL" /\ val \notin {JStr("dlib"), JStr("mediapipe")}
    \/ key = "SYSTEM_MODE" /\ val \notin {JStr(m) : m \in Modes}
    \/ /\ key \in {"TOLERANCE", "DETECTION_SCALE"}
       /\ \/ ~Numeric(val)
          \/ ~(10 <= PyFloat(val).x /\ PyFloat(val).x <= 100)
ValidItem(key, val) == key \in ALLOWED_KEYS /\ ~InvalidItem(key, val)

\* Item i of body b is the last one of its setting.
LastOfKey(b, i) == \A j \in DOMAIN b : j > i => Upper(b[j][1]) # Upper(b[i][1])

\* The request before this GET was a POST that was answered with an empty
\* errors list.
AfterCleanPost ==
    /\ request.method = "POST"
    /\ request.db_ok
    /\ response # None
    /\ response[1].status = 200
    /\ response[1].errors = <<>>

\* C26: a GET /api/settings (the table being readable) returns every setting
\* under its upper-case key with its stored value, and right after a POST of
\* valid values it returns those values under the same keys: the string
\* posted, or for a number a string that float() turns into it.
C26_GetReflectsPost ==
    [][(request'.method = "GET" /\ request'.db_ok) =>
          LET data == response'[1].data
          IN  /\ \A k \in Keys : k \in DOMAIN data /\ data[k] = JStr(settings_db[k])
              /\ AfterCleanPost =>
                    \A i \in DOMAIN request.body :
                       LET key == Upper(request.body[i][1])
                           val == request.body[i][2]
                       IN  (ValidItem(key, val) /\ LastOfKey(request.body, i)) =>
                              /\ key \in DOMAIN data
                              /\ IF val.kind = "num"
                                 THEN PyFloat(data[key]) = [raises |-> "", x |-> val.x]
                                 ELSE data[key] = val]_vars

\* The stored and the cached value of a key, None when there is none.
StoredOf(db, key) == IF key \in DOMAIN db THEN Some(db[key]) ELSE None

\* C27: a POST /api/settings reports every invalid item in its errors list
\* and leaves the stored and the cached value of its key as they were, and
\* applies the valid items of the same request (the table being writable).
C27_InvalidNeverStored ==
    [][request'.method = "POST" =>
          LET body == request'.body
          IN  \A i \in DOMAIN body :
                 LET key == Upper(body[i][1])
                     val == body[i][2]
                 IN  /\ InvalidItem(key, val) =>
                           /\ response'[1].status = 200
                           /\ \E n \in DOMAIN response'[1].errors :
                                 response'[1].errors[n][1] = key
                           /\ (\A j \in DOMAIN body :
                                  Upper(body[j][1]) = key => InvalidItem(key, body[j][2]))
                              => /\ StoredOf(settings_db', key) = StoredOf(settings_db, key)
                                 /\ StoredOf(cache', key) = StoredOf(cache, key)
                     /\ (ValidItem(key, val) /\ LastOfKey(body, i) /\ request'.db_ok) =>
                           /\ StoredOf(settings_db', key) = Some(PyStr(val))
                           /\ StoredOf(cache', key) = Some(PyStr(val))]_vars

\* The generator is over or was never made.
GenOver == gpc \in {"idle", "done"}

\* C28: a consumer of the stream never fails on the empty output slot and
\* yields nothing while the slot is empty; every part it yields is the
\* encoding of a copy of a frame the capture loop put into the output slot;
\* and once the pipeline is no longer running the generator ends.
C28_ConsumerOfStream ==
    /\ [](gpc # "failed")
    /\ [](output_frame = None => yielded = None)
    /\ [](yielded # None => \E array \in published_frames : yielded[1] = Jpeg(array))
    /\ (~is_running ~> GenOver)

\* C28's case: the generator found the output slot empty, went on polling,
\* yielded a frame and ended after the pipeline was stopped.
C28_Witness ==
    /\ polled_empty
    /\ yielded # None
    /\ gpc = "done"
    /\ ~is_running

\* C29: what the detection loop copies from the latest-frame slot is the
\* mirrored camera image as published, with nothing drawn on it.
C29_SnapshotAsPublished ==
    frame_to_process # None =>
        /\ frame_to_process[1].mirrored
        /\ frame_to_process[1].marks = {}

\* The thread that takes the step holds face_system.lock.
CaptureHolds == \E t \in Threads : lock = Some(CaptureThread(t)) /\ cpc[t] = "publish"
AiHolds == lock = Some(AiThread) /\ pc \in {"snapshot", "results"}

\* C30: a step that writes the latest-frame slot or the array it refers to,
\* or reads them, or reads or writes the tracker list with its names or the
\* detection results, is taken by a thread that holds face_system.lock; and
\* a thread holds the lock only between taking it and the end of the
\* guarded block, not across detection, logging, tracker update or drawing.
C30_SharedStateUnderLock ==
    [][/\ (\/ latest_frame' # latest_frame
           \/ latest_frame # None /\ heap'[latest_frame[1]] # heap[latest_frame[1]]
           \/ current_names' # current_names) => CaptureHolds
       /\ (\/ frame_to_process' # frame_to_process /\ frame_to_process' # None
           \/ tracking_names' # tracking_names
           \/ detected_results' # detected_results) => AiHolds
       /\ lock' # None => (CaptureHolds \/ AiHolds)']_vars

\* C35: a detection or recognition step that raises inside a cycle (the
\* detector, the encoder, the matcher, tracker creation) is skipped and the
\* detection loop goes on with its cycles: no step of a cycle ends the loop.
C35_StepFailureSkipped ==
    [][(pc \in {"sweep", "faces"}) => (pc' \in {"schedule", "sweep", "faces"})]_vars

\* The capture threads that are alive, and the number of detection threads
\* that are.
CaptureAlive == {t \in Threads : cpc[t] \notin {"idle", "done"}}
DetectionAlive == (IF AiAlive THEN 1 ELSE 0) + old_ai_same + old_ai_orphan

\* C38: whatever start(), stop() and restart() calls have been made, at most
\* one capture loop and at most one detection loop are alive.
C38_OneLoopOfEachKind ==
    /\ Cardinality(CaptureAlive) <= 1
    /\ DetectionAlive <= 1

\* C40: at most one camera handle is open at any time.
C40_OneOpenHandle == Cardinality(opened) <= 1

\* The students the session has a sighting key for.
LoggedStudents == {k.name : k \in {q \in session_logged : q.kind = "sched"}}

\* A step that writes a "Disappeared" row writes it for a student who has a
\* sighting row of the session.
DisappearedAfterSighting ==
    (/\ Len(attendance_logs') > Len(attendance_logs)
     /\ attendance_logs'[Len(attendance_logs')].status = "Disappeared")
    => \E i \in SessionRows :
           /\ attendance_logs[i].student = attendance_logs'[Len(attendance_logs')].student
           /\ attendance_logs[i].status # "Disappeared"

\* C39: in every reachable state each student with an entry in last_seen has
\* a sighting key in session_logged, and a "Disappeared" row is only ever
\* written for a student with a sighting row of the current session.
C39_LastSeenImpliesLogged ==
    /\ [](DOMAIN last_seen \subseteq LoggedStudents)
    /\ [][DisappearedAfterSighting]_vars

\* The mode as get_active_schedule reads it.
ModeNow == GetStr(cache, "SYSTEM_MODE", Some("auto"))

\* The names whose last_seen entry a step sets or changes.
Refreshed ==
    {n \in DOMAIN last_seen' : n \notin DOMAIN last_seen \/ last_seen'[n] # last_seen[n]}

\* A step of the sweep or of a face that writes no row leaves session_logged
\* as it is and refreshes last_seen only for a name logged already.
FailedWriteKeepsSession ==
    (pc \in {"sweep", "faces"} /\ attendance_logs' = attendance_logs)
    => /\ session_logged' = session_logged
       /\ Refreshed \subseteq LoggedStudents

\* While the timetable cannot be read and the mode is auto, a cycle finds no
\* schedule and a face or a sweep records nothing.
FailedLookupIsNoSchedule ==
    (~timetable_ok /\ ModeNow = "auto")
    => /\ (pc = "schedule" /\ pc' = "sweep") => schedule' = Some(None)
       /\ (pc \in {"sweep", "faces"})
              => UNCHANGED <<attendance_logs, session_logged, last_seen>>

\* C37: a write to the attendance log that fails, for a sighting or for a
\* disappearance, adds no key to session_logged and leaves last_seen alone,
\* and the loop goes on; a timetable lookup that fails counts as no active
\* schedule.
C37_SinkFailureKeepsSession ==
    [][/\ (pc \in {"schedule", "sweep", "faces"}) => (pc' \in {"schedule", "sweep", "faces"})
       /\ FailedWriteKeepsSession
       /\ FailedLookupIsNoSchedule]_vars

\* alice, a student, has been sighted under a schedule with room in the log
\* and is not logged: the write failed.
C37_Witness ==
    /\ pc = "faces"
    /\ face = "alice"
    /\ "alice" \in students
    /\ HasRoom(attendance_logs)
    /\ timetable_ok
    /\ schedule # Some(None)
    /\ get_active_schedule(cache) = schedule[1]
    /\ "alice" \notin LoggedStudents

\* The settings with a typed read in the detection loop all cast to int.
AllCast ==
    /\ GetInt(cache, "RECHECK_INTERVAL").int
    /\ GetInt(cache, "DISAPPEAR_THRESHOLD").int
    /\ GetInt(cache, "LATE_THRESHOLD").int

\* C36: with a stored setting that does not cast to int (the typed read
\* falling back on a default), the sweep and the status determination come
\* to their end: the detection loop goes on.
C36_UncastSettingTolerated ==
    [][(pc \in {"sweep", "faces"} /\ ~AllCast)
          => (pc' \in {"schedule", "sweep", "faces"})]_vars

\* C32: whenever the detection loop reads the gallery, the name sequence
\* and the embedding sequence have the same length, after loading from any
\* store and while an enrollment appends to them.
C32_GalleryLengthsEqual == seen.names = seen.encodings

\* A tracker list and a name list that go together: as many names as
\* trackers, each the name its tracker was built for, and the trackers all
\* built by one cycle.
Together(list, names) ==
    /\ Len(list) = Len(names)
    /\ \A i \in 1 .. Len(list) :
          /\ i <= Len(names) => names[i] = list[i].target
          /\ list[i].cycle = list[1].cycle

\* The step in which a detection cycle publishes.
CyclePublishes == pc = "results" /\ pc' = "schedule"

\* C31: a detection cycle replaces the tracker list, the name list and the
\* results in one step under the lock, by trackers all built in that cycle,
\* one for each result while the face_system runs; every copy the capture
\* loop takes is a tracker list and a name list of one length and one cycle.
C31_TrackersReplacedTogether ==
    /\ [](\A t \in Threads : Together(current_trackers[t], current_names[t]))
    /\ [](lock # Some(AiThread) => Together(trackers, tracking_names))
    /\ [][CyclePublishes =>
             /\ lock = Some(AiThread)
             /\ detected_results' = results
             /\ \A i \in 1 .. Len(trackers') : trackers'[i].cycle = cycle'
             /\ Together(trackers', tracking_names')
             /\ trackers' # <<>> => Targets(trackers') = detected_results']_vars
    /\ [][(pc = "faces" /\ pc' = "results" /\ fs_is_running)
             => Len(new_trackers') = Len(results)]_vars

\* The capture loop holds a copy of the two trackers of the second cycle.
C31_Witness ==
    /\ Len(current_trackers[1]) = 2
    /\ current_trackers[1][1].cycle = 2
    /\ current_names[1] = <<"alice", Unknown>>

\* The places of the copy of thread t.
Places(t) == 1 .. Len(current_trackers[t])

\* C34: in a pass over the trackers a tracker that raises is passed over and
\* every other tracker is updated to the frame and drawn; the frame with
\* these boxes and the overlay goes to the output slot in the same iteration
\* and the loop comes back to its top.
C34_BadTrackerSkipped ==
    [][\A t \in Threads :
          /\ (cpc[t] = "draw" /\ cpc'[t] # "draw")
                => /\ cpc'[t] = "overlay"
                   /\ \A i \in Places(t) \ raised'[t] :
                         /\ BoxMark(i) \in heap'[frame[t]].marks
                         /\ current_trackers'[t][i].at = heap[frame[t]].image
                   /\ \A i \in raised'[t] : BoxMark(i) \notin heap'[frame[t]].marks
          /\ (cpc[t] = "overlay" /\ cpc'[t] # "overlay") => cpc'[t] = "out_enter"
          /\ (cpc[t] = "out_enter" /\ cpc'[t] # "out_enter") => cpc'[t] = "output"
          /\ (cpc[t] = "output" /\ cpc'[t] # "output")
                => /\ cpc'[t] = "loop"
                   /\ output_frame' # None
                   /\ output_frame'[1].image = heap[frame[t]].image
                   /\ output_frame'[1].marks =
                         {BoxMark(i) : i \in Places(t) \ raised[t]} \cup {"status"}]_vars

\* A frame is in the output slot with the box of the second tracker and the
\* overlay, the first tracker having raised, and the loop is at its top.
C34_Witness ==
    /\ cpc[1] = "loop"
    /\ Len(current_trackers[1]) = 2
    /\ raised[1] = {1}
    /\ output_frame # None
    /\ output_frame[1].marks = {"box2", "status"}

\* The step in which a read of thread t fails.
ReadFailed(t) == cpc[t] = "read" /\ cpc'[t] \notin {"read", "enter"}

\* C33: an iteration of the capture loop whose read fails publishes nothing:
\* the latest-frame slot and the output slot keep what they hold, no tracker
\* is updated, and nothing changes but the count of failures in a row and,
\* when the reconnect is due, the camera handle and the locals of the open.
C33_FailedReadPublishesNothing ==
    [][\A t \in Threads :
          ReadFailed(t)
          => /\ consecutive_failures'[t] = consecutive_failures[t] + 1
             /\ UNCHANGED <<latest_frame, output_frame, trackers, current_trackers>>
             /\ UNCHANGED <<attVars, detVars, camVars, setVars, apiVars, frameVars,
                            moreVars>>
             /\ UNCHANGED <<is_running, fs_is_running, stop_event, started,
                            old_ai_same, old_ai_orphan, ctl>>
             /\ IF cpc'[t] = "loop"
                THEN UNCHANGED <<cap, opened, backoff, attempt, waited>>
                ELSE ReconnectDue(consecutive_failures[t])]_vars

\* Reads have failed since the frame with two tracked faces went to the
\* output slot, and the slots and the trackers are as they were.
C33_Witness ==
    /\ cpc[1] = "loop"
    /\ consecutive_failures[1] = 2
    /\ latest_frame # None
    /\ output_frame # None
    /\ Len(trackers) = 2

====
